---- MODULE Spec2Model ----
(***************************************************************************)
(* KPI computation engine of the CMMS application (src/kpi_manager.py):    *)
(* the manual-data and result stores, the four automatic calculations, the *)
(* batch calculation and the manual calculation, each SQL statement being  *)
(* one atomic step of the calling thread.                                  *)
(***************************************************************************)
EXTENDS Integers, Sequences, FiniteSets, TLC

VARIABLES
    kpi_manual_data,        \* table kpi_manual_data: a set of rows
    kpi_results,            \* table kpi_results: a set of rows
    kpi_definitions,        \* table kpi_definitions: a set of rows, never written
    weekly_pm_schedules,    \* table weekly_pm_schedules: bag  date -> number of rows
    pm_completions,         \* table pm_completions: bag  date -> number of rows
    corrective_maintenance, \* table corrective_maintenance: bag  row -> number of rows
    pc,                     \* per caller: the statement it executes next
    arg,                    \* per caller: the arguments of the running call
    loc,                    \* per caller: the local variables of the running call
    batch,                  \* per caller: the results dict of calculate_all_auto_kpis
    ret,                    \* per caller: what the last call returned or raised
    held,                   \* per caller: pool connections checked out
    today,                  \* the current date, datetime.now().date()
    written,                \* history: per result key, the last row written to it
    calls                   \* number of calls and outside changes made so far

db == <<kpi_manual_data, kpi_results, kpi_definitions, weekly_pm_schedules,
        pm_completions, corrective_maintenance, today, written>>
proc == <<pc, arg, loc, batch, ret, held>>
vars == <<kpi_manual_data, kpi_results, kpi_definitions, weekly_pm_schedules,
          pm_completions, corrective_maintenance, today, written, pc, arg, loc, batch,
          ret, held, calls>>

(***************************************************************************)
(* Values.  A Python/SQL value that may be None, a number or text is a     *)
(* record of one shape: k is its kind, n/d the number as a fraction in     *)
(* lowest terms (d > 0), s the text as a sequence of characters.           *)
(***************************************************************************)
RECURSIVE Gcd(_, _)
Gcd(a, b) == IF b = 0 THEN a ELSE Gcd(b, a % b)

Abs(x) == IF x < 0 THEN -x ELSE x

None == [k |-> "none", n |-> 0, d |-> 1, s |-> <<>>]

Text(s) == [k |-> "text", n |-> 0, d |-> 1, s |-> s]

\* the marker of a division by zero (Python raises ZeroDivisionError)
ZeroDiv == [k |-> "zerodiv", n |-> 0, d |-> 1, s |-> <<>>]

Num(n, d) ==
    LET g == Gcd(Abs(n), Abs(d))
        sg == IF d < 0 THEN -1 ELSE 1
    IN  [k |-> "num", n |-> sg * (n \div g), d |-> sg * (d \div g), s |-> <<>>]

Whole(n) == Num(n, 1)

\* a / b on numbers
Div(a, b) == IF b.n = 0 THEN ZeroDiv ELSE Num(a.n * b.d, a.d * b.n)

\* a * b on numbers
Mul(a, b) == IF a.k = "zerodiv" \/ b.k = "zerodiv" THEN ZeroDiv
             ELSE Num(a.n * b.n, a.d * b.d)

Lt(a, b) == a.n * b.d < b.n * a.d
Le(a, b) == a.n * b.d <= b.n * a.d
Eq(a, b) == a.n * b.d = b.n * a.d

\* round(x, digits) for digits in {1, 2}: to the nearest multiple of
\* 1/scale, a tie going to the even neighbour
RoundTo(x, scale) ==
    LET y   == x.n * scale
        fl  == y \div x.d
        rem == y - fl * x.d
        up  == (2 * rem > x.d) \/ (2 * rem = x.d /\ fl % 2 = 1)
    IN  Num(IF up THEN fl + 1 ELSE fl, scale)

Round2(x) == RoundTo(x, 100)
Round1(x) == RoundTo(x, 10)

\* Python truthiness of a value: None, 0 and '' are false
Truthy(v) == CASE v.k = "none" -> FALSE
               [] v.k = "num"  -> v.n # 0
               [] v.k = "text" -> v.s # <<>>
               [] OTHER        -> TRUE

\* a if a is not None else b
OrIfNone(a, b) == IF a.k = "none" THEN b ELSE a

\* a or b
Or(a, b) == IF Truthy(a) THEN a ELSE b

\* meets_criteria is True, False or None
Bool(b) == IF b THEN "True" ELSE "False"

\* A formatted text (an f-string): its template and the values put into it
Txt(fmt, a, b, c) == [fmt |-> fmt, a |-> a, b |-> b, c |-> c]
NoText == Txt("", None, None, None)

(***************************************************************************)
(* Period tokens are character sequences, parsed as the code parses them.  *)
(***************************************************************************)
Digits == {"0", "1", "2", "3", "4", "5", "6", "7", "8", "9"}

DigitVal(ch) == CASE ch = "0" -> 0 [] ch = "1" -> 1 [] ch = "2" -> 2
                  [] ch = "3" -> 3 [] ch = "4" -> 4 [] ch = "5" -> 5
                  [] ch = "6" -> 6 [] ch = "7" -> 7 [] ch = "8" -> 8
                  [] OTHER -> 9

\* str.split(sep): the pieces between the separators, empty pieces included
RECURSIVE SplitFrom(_, _, _)
SplitFrom(s, sep, cur) ==
    IF s = <<>> THEN <<cur>>
    ELSE IF Head(s) = sep THEN <<cur>> \o SplitFrom(Tail(s), sep, <<>>)
    ELSE SplitFrom(Tail(s), sep, Append(cur, Head(s)))

Split(s, sep) == SplitFrom(s, sep, <<>>)

\* int(text) succeeds on a non-empty run of digits
IsIntLiteral(s) == s # <<>> /\ \A i \in 1..Len(s) : s[i] \in Digits

RECURSIVE IntOf(_)
IntOf(s) == IF s = <<>> THEN 0
            ELSE 10 * IntOf(SubSeq(s, 1, Len(s) - 1)) + DigitVal(s[Len(s)])

\* the marker of a failed float(text) (Python raises ValueError)
ValueErr == [k |-> "valueerror", n |-> 0, d |-> 1, s |-> <<>>]

\* float(x) of a number or of a text
ToFloat(v) == IF v.k = "text"
              THEN (IF IsIntLiteral(v.s) THEN Whole(IntOf(v.s)) ELSE ValueErr)
              ELSE v

IsLeap(year) == year % 4 = 0 /\ (year % 100 # 0 \/ year % 400 = 0)

\* the days of a month with every February at 28
MonthDaysNoLeap(year, month) ==
    CASE month \in {4, 6, 9, 11} -> 30
      [] month = 2 -> 28
      [] OTHER -> 31

\* calendar.monthrange(year, month)[1]
MonthDays(year, month) ==
    IF month = 2 THEN (IF IsLeap(year) THEN 29 ELSE 28)
    ELSE IF month \in {4, 6, 9, 11} THEN 30 ELSE 31

\* str(n) of a natural number, and n formatted with :02d
DigitChar(d) == CASE d = 0 -> "0" [] d = 1 -> "1" [] d = 2 -> "2" [] d = 3 -> "3"
                  [] d = 4 -> "4" [] d = 5 -> "5" [] d = 6 -> "6" [] d = 7 -> "7"
                  [] d = 8 -> "8" [] OTHER -> "9"

RECURSIVE Str(_)
Str(n) == IF n < 10 THEN <<DigitChar(n)>> ELSE Append(Str(n \div 10), DigitChar(n % 10))

Pad2(n) == IF n < 10 THEN <<"0">> \o Str(n) ELSE Str(n)

\* f"{year}-{month:02d}-{day}": the text the queries are given
FormatDate(year, month, day) == Str(year) \o <<"-">> \o Pad2(month) \o <<"-">> \o Str(day)

\* %s::date of a text year-month-day
CastDate(s) ==
    LET parts == Split(s, "-")
    IN  <<IntOf(parts[1]), IntOf(parts[2]), IntOf(parts[3])>>

\* year, month = map(int, period.split('-')); start_date; last_day; end_date
\* exc is the exception raised, "" when none is
ParsePeriod(period) ==
    LET parts == Split(period, "-")
    IN  IF Len(parts) # 2 \/ ~IsIntLiteral(parts[1]) \/ ~IsIntLiteral(parts[2])
        THEN [exc |-> "ValueError", start_date |-> <<0, 0, 0>>, end_date |-> <<0, 0, 0>>]
        ELSE LET year == IntOf(parts[1])
                 month == IntOf(parts[2])
             IN  IF month \notin 1..12
                 THEN [exc |-> "IllegalMonthError", start_date |-> <<0, 0, 0>>,
                       end_date |-> <<0, 0, 0>>]
                 ELSE [exc |-> "",
                       start_date |-> CastDate(FormatDate(year, month, 1)),
                       end_date |-> CastDate(FormatDate(year, month,
                                                        MonthDays(year, month)))]

\* date a <= date b
DateLe(a, b) ==
    \/ a[1] < b[1]
    \/ a[1] = b[1] /\ a[2] < b[2]
    \/ a[1] = b[1] /\ a[2] = b[2] /\ a[3] <= b[3]

InRange(date, start_date, end_date) == DateLe(start_date, date) /\ DateLe(date, end_date)

(***************************************************************************)
(* The tables and their statements.                                        *)
(***************************************************************************)
PM_ADHERENCE == "Preventive Maintenance Adherence"
WO_OPENED_CLOSED == "WO opened vs WO closed"
WO_BACKLOG == "WO Backlog"
WO_AGE_PROFILE == "WO age profile"

AutoKpis == {PM_ADHERENCE, WO_OPENED_CLOSED, WO_BACKLOG, WO_AGE_PROFILE}

\* get_kpis_needing_manual_data
ManualKpis == {"FR1", "Near Miss", "TTR (Time to Repair) Adherence",
               "MTBF Mean Time Between Failure", "Technical Availability Adherence",
               "MRT (Mean Response Time)", "Top Breakdown",
               "Purchaser Monthly process Confirmation", "Purchaser satisfaction",
               "Non Conformances raised", "Non Conformances closed",
               "Mean Time to Deliver a Quote"}

\* get_required_fields_for_kpi: the field names of a KPI's input form
RequiredFields(kpi_name) ==
    CASE kpi_name = "FR1" -> {"accident_count", "hours_worked"}
      [] kpi_name = "Near Miss" -> {"near_miss_count"}
      [] kpi_name = "TTR (Time to Repair) Adherence" ->
            {"p1_within_target", "p1_total", "p2_within_target", "p2_total"}
      [] kpi_name = "MTBF Mean Time Between Failure" ->
            {"p1_operating_hours", "p1_failure_count", "p2_operating_hours",
             "p2_failure_count"}
      [] kpi_name = "Technical Availability Adherence" ->
            {"p1_assets_meeting_target", "p1_total_assets"}
      [] kpi_name = "MRT (Mean Response Time)" ->
            {"total_response_time_minutes", "wo_count"}
      [] kpi_name = "Non Conformances raised" -> {"nc_count"}
      [] kpi_name = "Non Conformances closed" -> {"nc_closed_on_time", "nc_total"}
      [] kpi_name = "Mean Time to Deliver a Quote" ->
            {"total_quote_time_hours", "quote_count"}
      [] kpi_name = "Purchaser satisfaction" -> {"satisfaction_score"}
      [] kpi_name = "Top Breakdown" -> {"breakdown_analysis"}
      [] kpi_name = "Purchaser Monthly process Confirmation" -> {"confirmation_score"}
      [] OTHER -> {}

ManualRow(kpi_name, period, data_field, data_value, data_text, entered_by) ==
    [kpi_name |-> kpi_name, measurement_period |-> period, data_field |-> data_field,
     data_value |-> data_value, data_text |-> data_text, entered_by |-> entered_by]

\* the upsert with entered_by left out of DO UPDATE SET
UpsertManualDataKeepingAuthor(table, row) ==
    LET old == {r \in table : /\ r.kpi_name = row.kpi_name
                              /\ r.measurement_period = row.measurement_period
                              /\ r.data_field = row.data_field}
    IN  IF old = {}
        THEN table \cup {row}
        ELSE (table \ old) \cup {[row EXCEPT !.entered_by = r.entered_by] : r \in old}

\* INSERT INTO kpi_manual_data ... ON CONFLICT (kpi_name, measurement_period,
\* data_field) DO UPDATE SET ...
UpsertManualData(table, row) ==
    {r \in table : ~(/\ r.kpi_name = row.kpi_name
                     /\ r.measurement_period = row.measurement_period
                     /\ r.data_field = row.data_field)} \cup {row}

\* the SELECT without its measurement_period condition
SelectManualDataAnyPeriod(table, kpi_name, period) ==
    {r \in table : r.kpi_name = kpi_name}

\* SELECT * FROM kpi_manual_data WHERE kpi_name = %s AND measurement_period = %s
SelectManualData(table, kpi_name, period) ==
    {r \in table : r.kpi_name = kpi_name /\ r.measurement_period = period}

ResultRow(kpi_name, period, calculated_value, calculated_text, target_value, meets_criteria, calculated_by, notes) ==
    [kpi_name |-> kpi_name, measurement_period |-> period,
     calculated_value |-> calculated_value, calculated_text |-> calculated_text,
     target_value |-> target_value, meets_criteria |-> meets_criteria,
     calculated_by |-> calculated_by, notes |-> notes]

\* the upsert with calculated_by and notes left out of DO UPDATE SET
UpsertResultKeepingAuthor(table, row) ==
    LET old == {r \in table : /\ r.kpi_name = row.kpi_name
                              /\ r.measurement_period = row.measurement_period}
    IN  IF old = {}
        THEN table \cup {row}
        ELSE (table \ old)
             \cup {[row EXCEPT !.calculated_by = r.calculated_by, !.notes = r.notes] :
                      r \in old}

\* the upsert with ON CONFLICT (measurement_period) alone
UpsertResultByPeriod(table, row) ==
    {r \in table : r.measurement_period # row.measurement_period} \cup {row}

\* a plain INSERT, without the ON CONFLICT clause
UpsertResultInsertOnly(table, row) == table \cup {row}

\* INSERT INTO kpi_results ... ON CONFLICT (kpi_name, measurement_period)
\* DO UPDATE SET ... : every column of the row is replaced
UpsertResult(table, row) ==
    {r \in table : ~(/\ r.kpi_name = row.kpi_name
                     /\ r.measurement_period = row.measurement_period)} \cup {row}

\* the function a KPI belongs to in the catalogue
FunctionCodeOf(kpi_name) ==
    CASE kpi_name \in {"FR1", "Near Miss"} -> "F4"
      [] kpi_name \in {"Non Conformances raised", "Non Conformances closed"} -> "F5"
      [] kpi_name \in {"Mean Time to Deliver a Quote", "Purchaser satisfaction",
                       "Purchaser Monthly process Confirmation"} -> "F7"
      [] OTHER -> "F2"

\* a row of kpi_definitions, with the columns get_kpi_results selects
Definition(kpi_name) ==
    [kpi_name |-> kpi_name, function_code |-> FunctionCodeOf(kpi_name),
     description |-> <<"description", kpi_name>>,
     acceptance_criteria |-> <<"criteria", kpi_name>>, frequency |-> "Monthly"]

\* the catalogue of KPI definitions: one row for each KPI the calculations know
Catalogue == {Definition(kpi_name) : kpi_name \in AutoKpis \cup ManualKpis}

\* the texts of the model that ORDER BY compares, in byte order
TextOrder ==
    <<"F2", "F4", "F5", "F7", "FR1", "MRT (Mean Response Time)",
      "MTBF Mean Time Between Failure", "Mean Time to Deliver a Quote", "Near Miss",
      "Non Conformances closed", "Non Conformances raised",
      "Preventive Maintenance Adherence", "Purchaser Monthly process Confirmation",
      "Purchaser satisfaction", "TTR (Time to Repair) Adherence",
      "Technical Availability Adherence", "Top Breakdown", "WO Backlog",
      "WO age profile", "WO opened vs WO closed">>

TextRank(s) == CHOOSE i \in DOMAIN TextOrder : TextOrder[i] = s

\* the byte order of the characters of a period token
CharRank(ch) == IF ch = "-" THEN 0 ELSE 1 + DigitVal(ch)

\* s < t for two period tokens compared as text
RECURSIVE PeriodLess(_, _)
PeriodLess(s, t) ==
    IF t = <<>> THEN FALSE
    ELSE IF s = <<>> THEN TRUE
    ELSE IF Head(s) # Head(t) THEN CharRank(Head(s)) < CharRank(Head(t))
    ELSE PeriodLess(Tail(s), Tail(t))

\* the order with the period ascending
JoinedBeforeAscending(x, y) ==
    IF x.function_code # y.function_code
    THEN TextRank(x.function_code) < TextRank(y.function_code)
    ELSE IF x.kpi_name # y.kpi_name
    THEN TextRank(x.kpi_name) < TextRank(y.kpi_name)
    ELSE PeriodLess(x.measurement_period, y.measurement_period)

\* ORDER BY d.function_code, r.kpi_name, r.measurement_period DESC
JoinedBefore(x, y) ==
    IF x.function_code # y.function_code
    THEN TextRank(x.function_code) < TextRank(y.function_code)
    ELSE IF x.kpi_name # y.kpi_name
    THEN TextRank(x.kpi_name) < TextRank(y.kpi_name)
    ELSE PeriodLess(y.measurement_period, x.measurement_period)

RECURSIVE Ordered(_)
Ordered(S) ==
    IF S = {} THEN <<>>
    ELSE LET first == CHOOSE x \in S : \A y \in S \ {x} : JoinedBefore(x, y)
         IN  <<first>> \o Ordered(S \ {first})

\* the optional arguments of get_kpi_results left out: a period or a name
\* that "if measurement_period:" and "if kpi_name:" take as false
NoPeriod == <<>>

NoName == ""

\* SELECT r.*, d.function_code, d.description, d.acceptance_criteria,
\* d.frequency FROM kpi_results r JOIN kpi_definitions d ON r.kpi_name =
\* d.kpi_name
Joined(r, d) ==
    r @@ [function_code |-> d.function_code, description |-> d.description,
          acceptance_criteria |-> d.acceptance_criteria, frequency |-> d.frequency]

\* get_kpi_results(measurement_period, kpi_name): the joined rows under the
\* filters that were given, in the order of ORDER BY
GetKpiResults(table, definitions, measurement_period, kpi_name) ==
    LET matching == {r \in table :
                        /\ measurement_period # NoPeriod =>
                              r.measurement_period = measurement_period
                        /\ kpi_name # NoName => r.kpi_name = kpi_name}
        pairs == {p \in matching \X definitions : p[1].kpi_name = p[2].kpi_name}
    IN  Ordered({Joined(p[1], p[2]) : p \in pairs})

ResultsFor(table, kpi_name, period) ==
    {r \in table : r.kpi_name = kpi_name /\ r.measurement_period = period}

\* the number of rows of a bag that satisfy a predicate
RECURSIVE BagSum(_, _)
BagSum(bag, S) ==
    IF S = {} THEN 0
    ELSE LET x == CHOOSE x \in S : TRUE IN bag[x] + BagSum(bag, S \ {x})

BagAdd(bag, x) ==
    IF x \in DOMAIN bag THEN [bag EXCEPT ![x] = @ + 1] ELSE bag @@ (x :> 1)

BagRemove(bag, x) ==
    IF bag[x] > 1 THEN [bag EXCEPT ![x] = @ - 1]
    ELSE [y \in DOMAIN bag \ {x} |-> bag[y]]

BagSize(bag) == BagSum(bag, DOMAIN bag)

EmptyBag == [x \in {} |-> 0]

\* SELECT COUNT(*) FROM weekly_pm_schedules / pm_completions
\* WHERE <date>::date >= start AND <date>::date <= end
CountDates(bag, start_date, end_date) ==
    BagSum(bag, {x \in DOMAIN bag : InRange(x, start_date, end_date)})

\* a corrective_maintenance row: its created_date and status
WorkOrder(ymd, status) ==
    [created_date |-> [k |-> "date", ymd |-> ymd, s |-> <<>>], status |-> status]

\* a row whose created_date is any value of the column
WorkOrderRow(created_date, status) == [created_date |-> created_date, status |-> status]

\* SELECT COUNT(*) FROM corrective_maintenance
\* WHERE created_date::date >= start AND created_date::date <= end [AND status ...]
\* the count without its status condition
CountWorkOrdersAnyStatus(bag, start_date, end_date, statuses) ==
    BagSum(bag, {x \in DOMAIN bag :
                    /\ x.created_date.k = "date"
                    /\ InRange(x.created_date.ymd, start_date, end_date)})

CountWorkOrders(bag, start_date, end_date, statuses) ==
    BagSum(bag, {x \in DOMAIN bag :
                    /\ x.created_date.k = "date"
                    /\ InRange(x.created_date.ymd, start_date, end_date)
                    /\ x.status \in statuses})

AllStatuses == {"Open", "Closed", "Completed", "In Progress"}

(***************************************************************************)
(* The formulas of the automatic calculations.                             *)
(***************************************************************************)
\* the formula with adherence > 95
PmAdherenceFormulaStrict(scheduled, completed) ==
    IF scheduled > 0
    THEN LET adherence == Mul(Div(Whole(completed), Whole(scheduled)), Whole(100))
         IN  [adherence |-> adherence, meets_criteria |-> Bool(Lt(Whole(95), adherence))]
    ELSE [adherence |-> Whole(0), meets_criteria |-> "None"]

\* calculate_pm_adherence: adherence and meets_criteria from the two counts
PmAdherenceFormula(scheduled, completed) ==
    IF scheduled > 0
    THEN LET adherence == Mul(Div(Whole(completed), Whole(scheduled)), Whole(100))
         IN  [adherence |-> adherence, meets_criteria |-> Bool(Le(Whole(95), adherence))]
    ELSE [adherence |-> Whole(0), meets_criteria |-> "None"]

\* the row calculate_pm_adherence saves
PmAdherenceRow(period, username, scheduled, completed) ==
    LET f == PmAdherenceFormula(scheduled, completed)
    IN  ResultRow(PM_ADHERENCE, period, Round2(f.adherence),
                  Txt("{completed}/{scheduled} completed", Whole(completed),
                      Whole(scheduled), None),
                  Whole(95), f.meets_criteria, username,
                  Txt("Scheduled: {scheduled}, Completed: {completed}",
                      Whole(scheduled), Whole(completed), None))

\* the dict calculate_pm_adherence returns
PmAdherenceDict(scheduled, completed) ==
    LET f == PmAdherenceFormula(scheduled, completed)
    IN  [value |-> Round2(f.adherence), scheduled |-> scheduled,
         completed |-> completed, meets_criteria |-> f.meets_criteria]

\* currently_open < 40
WoOpenedClosedMeetsBelow(currently_open) == Bool(currently_open < 40)

\* calculate_wo_opened_vs_closed
WoOpenedClosedMeets(currently_open) == Bool(currently_open <= 40)

WoOpenedClosedRow(period, username, opened, closed, currently_open) ==
    ResultRow(WO_OPENED_CLOSED, period, Whole(currently_open),
              Txt("Opened: {opened}, Closed: {closed}, Currently Open: {currently_open}",
                  Whole(opened), Whole(closed), Whole(currently_open)),
              Whole(40), WoOpenedClosedMeets(currently_open), username,
              Txt("Opened: {opened}, Closed: {closed}", Whole(opened), Whole(closed), None))

WoOpenedClosedDict(opened, closed, currently_open) ==
    [opened |-> opened, closed |-> closed, currently_open |-> currently_open,
     meets_criteria |-> WoOpenedClosedMeets(currently_open)]

\* the formula with backlog_pct <= 10
WoBacklogFormulaAtMost(raised_this_month, open_wo) ==
    IF raised_this_month > 0
    THEN LET backlog_pct == Mul(Div(Whole(open_wo), Whole(raised_this_month)), Whole(100))
         IN  [backlog_pct |-> backlog_pct, meets_criteria |-> Bool(Le(backlog_pct, Whole(10)))]
    ELSE [backlog_pct |-> Whole(0), meets_criteria |-> Bool(open_wo = 0)]

\* calculate_wo_backlog: backlog_pct and meets_criteria from the two counts
WoBacklogFormula(raised_this_month, open_wo) ==
    IF raised_this_month > 0
    THEN LET backlog_pct == Mul(Div(Whole(open_wo), Whole(raised_this_month)), Whole(100))
         IN  [backlog_pct |-> backlog_pct, meets_criteria |-> Bool(Lt(backlog_pct, Whole(10)))]
    ELSE [backlog_pct |-> Whole(0), meets_criteria |-> Bool(open_wo = 0)]

\* target_value = raised_this_month * 0.1 if raised_this_month > 0 else 0
WoBacklogTarget(raised_this_month) ==
    IF raised_this_month > 0 THEN Num(raised_this_month, 10) ELSE Whole(0)

WoBacklogRow(period, username, raised_this_month, open_wo) ==
    LET f == WoBacklogFormula(raised_this_month, open_wo)
    IN  ResultRow(WO_BACKLOG, period, Whole(open_wo),
                  Txt("{open_wo} open ({backlog_pct:.1f}% of {raised_this_month} raised)",
                      Whole(open_wo), Round1(f.backlog_pct), Whole(raised_this_month)),
                  WoBacklogTarget(raised_this_month), f.meets_criteria, username,
                  Txt("Open: {open_wo}, Raised this month: {raised_this_month}",
                      Whole(open_wo), Whole(raised_this_month), None))

WoBacklogDict(raised_this_month, open_wo) ==
    LET f == WoBacklogFormula(raised_this_month, open_wo)
    IN  [open_wo |-> open_wo, raised_this_month |-> raised_this_month,
         backlog_pct |-> Round2(f.backlog_pct), meets_criteria |-> f.meets_criteria]

\* the number of the day of a date, counted from 0001-01-01 (date.toordinal)
DaysBeforeMonth(year, month) ==
    LET RECURSIVE Before(_)
        Before(m) == IF m <= 1 THEN 0 ELSE Before(m - 1) + MonthDays(year, m - 1)
    IN  Before(month)

Ordinal(ymd) ==
    LET y == ymd[1] - 1
    IN  365 * y + (y \div 4) - (y \div 100) + (y \div 400)
        + DaysBeforeMonth(ymd[1], ymd[2]) + ymd[3]

\* a created_date value: a date, a datetime (its time of day plays no part),
\* a text, or NULL
DateValue(ymd) == [k |-> "date", ymd |-> ymd, s |-> <<>>]
DateTimeValue(ymd) == [k |-> "datetime", ymd |-> ymd, s |-> <<>>]
TextValue(s) == [k |-> "text", ymd |-> <<>>, s |-> s]
NullValue == [k |-> "none", ymd |-> <<>>, s |-> <<>>]

\* a field of a strptime format: one or two digits (four for %Y)
IsField(s, lengths) == Len(s) \in lengths /\ \A i \in 1..Len(s) : s[i] \in Digits

\* datetime.strptime(s, '%Y-%m-%d').date(): the date, or <<>> on ValueError
StrpDate(s) ==
    LET parts == Split(s, "-")
    IN  IF /\ Len(parts) = 3
           /\ IsField(parts[1], {4}) /\ IsField(parts[2], {1, 2}) /\ IsField(parts[3], {1, 2})
        THEN LET year  == IntOf(parts[1])
                 month == IntOf(parts[2])
                 day   == IntOf(parts[3])
             IN  IF year >= 1 /\ month \in 1..12 /\ day >= 1 /\ day <= MonthDays(year, month)
                 THEN <<year, month, day>> ELSE <<>>
        ELSE <<>>

\* datetime.strptime(s, '%Y-%m-%d %H:%M:%S').date(): the date, or <<>>
StrpDateTime(s) ==
    LET halves == Split(s, " ")
    IN  IF Len(halves) # 2 THEN <<>>
        ELSE LET clock == Split(halves[2], ":")
             IN  IF /\ Len(clock) = 3
                    /\ \A i \in 1..3 : IsField(clock[i], {1, 2})
                    /\ IntOf(clock[1]) <= 23 /\ IntOf(clock[2]) <= 59 /\ IntOf(clock[3]) <= 61
                 THEN StrpDate(halves[1]) ELSE <<>>

\* the date the loop of calculate_wo_age_profile takes from a created_date,
\* <<>> when the row is skipped
LoopDate(created_date) ==
    CASE created_date.k \in {"date", "datetime"} -> created_date.ymd
      [] created_date.k = "text" /\ created_date.s # <<>> ->
            IF StrpDate(created_date.s) # <<>> THEN StrpDate(created_date.s)
            ELSE StrpDateTime(created_date.s)
      [] OTHER -> <<>>

\* the loop body with a row without a usable date aged as zero days old
AgeOfCountingUndated(created_date, now) ==
    IF LoopDate(created_date) # <<>>
    THEN [aged |-> TRUE, age |-> Ordinal(now) - Ordinal(LoopDate(created_date))]
    ELSE [aged |-> TRUE, age |-> 0]

\* the loop body of calculate_wo_age_profile for one row: whether the row
\* is aged, and (now - created_date).days
AgeOf(created_date, now) ==
    IF LoopDate(created_date) # <<>>
    THEN [aged |-> TRUE, age |-> Ordinal(now) - Ordinal(LoopDate(created_date))]
    ELSE [aged |-> FALSE, age |-> 0]

\* the counts with age >= 60 as the threshold
WoAgeCountsFromSixty(bag, now) ==
    LET open == {x \in DOMAIN bag : x.status = "Open"}
        aged == {x \in open : AgeOf(x.created_date, now).aged}
        over == {x \in aged : AgeOf(x.created_date, now).age >= 60}
        RECURSIVE AgeSum(_)
        AgeSum(S) == IF S = {} THEN 0
                     ELSE LET x == CHOOSE x \in S : TRUE
                          IN  bag[x] * AgeOf(x.created_date, now).age + AgeSum(S \ {x})
    IN  [over_60_days |-> BagSum(bag, over), n_ages |-> BagSum(bag, aged),
         sum_ages |-> AgeSum(aged), total_open |-> BagSum(bag, open)]

\* over_60_days, len(ages), sum(ages) and len(open_wos) over the fetched rows
WoAgeCounts(bag, now) ==
    LET open == {x \in DOMAIN bag : x.status = "Open"}
        aged == {x \in open : AgeOf(x.created_date, now).aged}
        over == {x \in aged : AgeOf(x.created_date, now).age > 60}
        RECURSIVE AgeSum(_)
        AgeSum(S) == IF S = {} THEN 0
                     ELSE LET x == CHOOSE x \in S : TRUE
                          IN  bag[x] * AgeOf(x.created_date, now).age + AgeSum(S \ {x})
    IN  [over_60_days |-> BagSum(bag, over), n_ages |-> BagSum(bag, aged),
         sum_ages |-> AgeSum(aged), total_open |-> BagSum(bag, open)]

\* avg_age = sum(ages) / len(ages) if ages else 0
WoAgeAverage(c) == IF c.n_ages > 0 THEN Num(c.sum_ages, c.n_ages) ELSE Whole(0)

WoAgeMeets(c) == Bool(c.over_60_days = 0)

\* the row with the count taken as zero unless the token names a month
WoAgeRowOfMonth(period, username, c) ==
    ResultRow(WO_AGE_PROFILE, period,
              IF ParsePeriod(period).exc = "" THEN Whole(c.over_60_days) ELSE Whole(0),
              Txt("{over_60_days} WOs over 60 days old (avg age: {avg_age:.1f} days)",
                  Whole(c.over_60_days), Round1(WoAgeAverage(c)), None),
              Whole(0), WoAgeMeets(c), username,
              Txt("Total open WOs: {len(open_wos)}, Average age: {avg_age:.1f} days",
                  Whole(c.total_open), Round1(WoAgeAverage(c)), None))

WoAgeRow(period, username, c) ==
    ResultRow(WO_AGE_PROFILE, period, Whole(c.over_60_days),
              Txt("{over_60_days} WOs over 60 days old (avg age: {avg_age:.1f} days)",
                  Whole(c.over_60_days), Round1(WoAgeAverage(c)), None),
              Whole(0), WoAgeMeets(c), username,
              Txt("Total open WOs: {len(open_wos)}, Average age: {avg_age:.1f} days",
                  Whole(c.total_open), Round1(WoAgeAverage(c)), None))

WoAgeDict(c) ==
    [over_60_days |-> c.over_60_days, total_open |-> c.total_open,
     avg_age |-> Round1(WoAgeAverage(c)), meets_criteria |-> WoAgeMeets(c)]

(***************************************************************************)
(* The formulas of calculate_manual_kpi.                                   *)
(***************************************************************************)
\* data_dict = {row['data_field']: row['data_value'] or row['data_text']}
DataDict(rows) ==
    [f \in {r.data_field : r \in rows} |->
        LET r == CHOOSE r \in rows : r.data_field = f
        IN  Or(r.data_value, r.data_text)]

\* data_dict.get(field)
Get(data_dict, field) == IF field \in DOMAIN data_dict THEN data_dict[field] ELSE None

\* float(data_dict.get(field) or 0), whatever the default
NumberOrZero(data_dict, field, default) == ToFloat(Or(Get(data_dict, field), Whole(0)))

\* float(data_dict.get(field) or default)
Number(data_dict, field, default) == ToFloat(Or(Get(data_dict, field), Whole(default)))

\* result, meets_criteria and calculated_text at the end of the if/elif chain
Calc(result, meets_criteria, calculated_text) ==
    [exc |-> "", result |-> result, meets_criteria |-> meets_criteria,
     calculated_text |-> calculated_text]

NoCalc == Calc(None, "None", NoText)

Failed(exc) == [exc |-> exc, result |-> None, meets_criteria |-> "None",
                calculated_text |-> NoText]

\* int(x): truncation toward zero
Trunc(x) == IF x.n >= 0 THEN Whole(x.n \div x.d) ELSE Whole(-((-x.n) \div x.d))

\* the shape shared by the six ratio branches: numerator and denominator are
\* read, and when the denominator is positive the ratio is scaled and compared
CalcFR1(d) ==
    LET accidents == Number(d, "accident_count", 0)
        hours     == Number(d, "hours_worked", 1)
    IN  IF accidents.k = "valueerror" \/ hours.k = "valueerror" THEN Failed("ValueError")
        ELSE IF hours.n > 0
        THEN LET result == Mul(Div(accidents, hours), Whole(1000000))
             IN  Calc(result, Bool(Eq(result, Whole(0))),
                      Txt("{accidents} accidents per {hours:,.0f} hours worked",
                          accidents, RoundTo(hours, 1), None))
        ELSE NoCalc

CalcNearMiss(d) ==
    LET result == Number(d, "near_miss_count", 0)
    IN  IF result.k = "valueerror" THEN Failed("ValueError")
        ELSE Calc(result, "None", Txt("{int(result)} near miss reports", Trunc(result),
                                       None, None))

CalcTTR(d) ==
    LET p1_within == Number(d, "p1_within_target", 0)
        p1_total  == Number(d, "p1_total", 1)
    IN  IF p1_within.k = "valueerror" \/ p1_total.k = "valueerror" THEN Failed("ValueError")
        ELSE IF p1_total.n > 0
        THEN LET result == Mul(Div(p1_within, p1_total), Whole(100))
             IN  Calc(result, Bool(Le(Whole(95), result)),
                      Txt("{p1_within}/{p1_total} P1 assets within target",
                          p1_within, p1_total, None))
        ELSE NoCalc

\* the MTBF branch with result >= 80
CalcMTBFFromEighty(d) ==
    LET p1_hours    == Number(d, "p1_operating_hours", 0)
        p1_failures == Number(d, "p1_failure_count", 1)
    IN  IF p1_hours.k = "valueerror" \/ p1_failures.k = "valueerror"
        THEN Failed("ValueError")
        ELSE IF p1_failures.n > 0
        THEN LET result == Div(p1_hours, p1_failures)
             IN  Calc(result, Bool(Le(Whole(80), result)),
                      Txt("{result:.1f} hours between failures (P1 assets)",
                          Round1(result), None, None))
        ELSE NoCalc

CalcMTBF(d) ==
    LET p1_hours    == Number(d, "p1_operating_hours", 0)
        p1_failures == Number(d, "p1_failure_count", 1)
    IN  IF p1_hours.k = "valueerror" \/ p1_failures.k = "valueerror"
        THEN Failed("ValueError")
        ELSE IF p1_failures.n > 0
        THEN LET result == Div(p1_hours, p1_failures)
             IN  Calc(result, Bool(Lt(Whole(80), result)),
                      Txt("{result:.1f} hours between failures (P1 assets)",
                          Round1(result), None, None))
        ELSE NoCalc

CalcTechnicalAvailability(d) ==
    LET meeting == Number(d, "p1_assets_meeting_target", 0)
        total   == Number(d, "p1_total_assets", 1)
    IN  IF meeting.k = "valueerror" \/ total.k = "valueerror" THEN Failed("ValueError")
        ELSE IF total.n > 0
        THEN LET result == Mul(Div(meeting, total), Whole(100))
             IN  Calc(result, Bool(Le(Whole(95), result)),
                      Txt("{meeting}/{total} P1 assets meeting >95% availability",
                          meeting, total, None))
        ELSE NoCalc

CalcMRT(d) ==
    LET total_time == Number(d, "total_response_time_minutes", 0)
        wo_count   == Number(d, "wo_count", 1)
    IN  IF total_time.k = "valueerror" \/ wo_count.k = "valueerror"
        THEN Failed("ValueError")
        ELSE IF wo_count.n > 0
        THEN LET result == Div(total_time, wo_count)
             IN  Calc(result, Bool(Le(result, Whole(15))),
                      Txt("{result:.1f} minutes average response time",
                          Round1(result), None, None))
        ELSE NoCalc

CalcNCRaised(d) ==
    LET result == Number(d, "nc_count", 0)
    IN  IF result.k = "valueerror" THEN Failed("ValueError")
        ELSE Calc(result, Bool(Eq(result, Whole(0))),
                  Txt("{int(result)} non-conformances raised", Trunc(result), None, None))

CalcNCClosed(d) ==
    LET closed == Number(d, "nc_closed_on_time", 0)
        total  == Number(d, "nc_total", 1)
    IN  IF closed.k = "valueerror" \/ total.k = "valueerror" THEN Failed("ValueError")
        ELSE IF total.n > 0
        THEN LET result == Mul(Div(closed, total), Whole(100))
             IN  Calc(result, Bool(Eq(result, Whole(100))),
                      Txt("{closed}/{total} closed on time", closed, total, None))
        ELSE NoCalc

CalcQuote(d) ==
    LET total_hours == Number(d, "total_quote_time_hours", 0)
        quote_count == Number(d, "quote_count", 1)
    IN  IF total_hours.k = "valueerror" \/ quote_count.k = "valueerror"
        THEN Failed("ValueError")
        ELSE IF quote_count.n > 0
        THEN LET result == Div(total_hours, quote_count)
             IN  Calc(result, Bool(Le(result, Whole(48))),
                      Txt("{result:.1f} hours average delivery time",
                          Round1(result), None, None))
        ELSE NoCalc

CalcSatisfaction(d) ==
    LET result == Number(d, "satisfaction_score", 0)
    IN  IF result.k = "valueerror" THEN Failed("ValueError")
        ELSE Calc(result, Bool(Le(Whole(90), result)),
                  Txt("{result}% satisfaction score", result, None, None))

CalcConfirmation(d) ==
    LET result == Number(d, "confirmation_score", 0)
    IN  IF result.k = "valueerror" THEN Failed("ValueError")
        ELSE Calc(result, Bool(Le(Whole(90), result)),
                  Txt("{result}% confirmation score", result, None, None))

CalcTopBreakdown(d) ==
    Calc(None, "None",
         Txt("{breakdown_analysis}", Or(Get(d, "breakdown_analysis"), Text(<<"N", "/", "A">>)),
             None, None))

\* the if/elif chain on kpi_name; a division by zero raises
ManualFormula(kpi_name, d) ==
    LET c == CASE kpi_name = "FR1" -> CalcFR1(d)
               [] kpi_name = "Near Miss" -> CalcNearMiss(d)
               [] kpi_name = "TTR (Time to Repair) Adherence" -> CalcTTR(d)
               [] kpi_name = "MTBF Mean Time Between Failure" -> CalcMTBF(d)
               [] kpi_name = "Technical Availability Adherence" ->
                     CalcTechnicalAvailability(d)
               [] kpi_name = "MRT (Mean Response Time)" -> CalcMRT(d)
               [] kpi_name = "Non Conformances raised" -> CalcNCRaised(d)
               [] kpi_name = "Non Conformances closed" -> CalcNCClosed(d)
               [] kpi_name = "Mean Time to Deliver a Quote" -> CalcQuote(d)
               [] kpi_name = "Purchaser satisfaction" -> CalcSatisfaction(d)
               [] kpi_name = "Purchaser Monthly process Confirmation" ->
                     CalcConfirmation(d)
               [] kpi_name = "Top Breakdown" -> CalcTopBreakdown(d)
               [] OTHER -> NoCalc
    IN  IF c.result.k = "zerodiv" THEN Failed("ZeroDivisionError") ELSE c

\* the save without its condition
ManualSavesAlways(c) == TRUE

\* if result is not None or calculated_text
ManualSaves(c) == c.result.k # "none" \/ c.calculated_text # NoText

\* the row calculate_manual_kpi saves: target_value and notes are not given
ManualResultRow(kpi_name, period, username, c) ==
    ResultRow(kpi_name, period, c.result, c.calculated_text, None, c.meets_criteria,
              username, NoText)

\* the dict calculate_manual_kpi returns
ManualDict(c) ==
    [value |-> c.result, text |-> c.calculated_text, meets_criteria |-> c.meets_criteria]

(***************************************************************************)
(* Callers.  A caller is a thread of the application that calls the        *)
(* KPIManager; pc is "idle" between two calls.                             *)
(***************************************************************************)
Callers == {"c1", "c2"}

NoArg == [op |-> "", kpi_name |-> "", measurement_period |-> <<>>, username |-> ""]

NoLoc == [none |-> TRUE]

NoBatch == [active |-> FALSE, results |-> <<>>]

NoRet == [kind |-> "none", exc |-> "", call |-> NoArg, val |-> <<>>]

\* a call that returned val
Returned(call, val) == [kind |-> "ok", exc |-> "", call |-> call, val |-> val]

\* a call that raised exc
Raised(call, exc) == [kind |-> "raise", exc |-> exc, call |-> call, val |-> <<>>]

\* the dict {'error': error_msg}
ErrorDict(call, exc) == [kind |-> "error", exc |-> exc, call |-> call, val |-> <<>>]

\* the key of calculate_all_auto_kpis's results dict a calculation is stored under
BatchKey(op) ==
    CASE op = "calculate_pm_adherence" -> "pm_adherence"
      [] op = "calculate_wo_opened_vs_closed" -> "wo_opened_closed"
      [] op = "calculate_wo_backlog" -> "wo_backlog"
      [] OTHER -> "wo_age_profile"

\* the calculation calculate_all_auto_kpis runs after op
BatchNextOp(op) ==
    CASE op = "calculate_pm_adherence" -> "calculate_wo_opened_vs_closed"
      [] op = "calculate_wo_opened_vs_closed" -> "calculate_wo_backlog"
      [] OTHER -> "calculate_wo_age_profile"

\* the first statement of a calculation
FirstLabel(op) ==
    CASE op = "calculate_pm_adherence" -> "pm_q1"
      [] op = "calculate_wo_opened_vs_closed" -> "woc_q1"
      [] op = "calculate_wo_backlog" -> "bk_q1"
      [] op = "calculate_wo_age_profile" -> "age_q1"
      [] OTHER -> "man_q1"

\* Complete with an exception inside calculate_all_auto_kpis not caught per
\* calculation: the first one ends the batch
CompleteAbortingBatch(c, outcome, released) ==
    /\ held' = [held EXCEPT ![c] = @ - released]
    /\ loc' = [loc EXCEPT ![c] = NoLoc]
    /\ IF batch[c].active
       THEN LET entry   == IF outcome.kind = "raise"
                           THEN ErrorDict(outcome.call, outcome.exc) ELSE outcome
                results == (BatchKey(arg[c].op) :> entry) @@ batch[c].results
            IN  IF arg[c].op = "calculate_wo_age_profile" \/ outcome.kind = "raise"
                THEN /\ pc' = [pc EXCEPT ![c] = "idle"]
                     /\ arg' = [arg EXCEPT ![c] = NoArg]
                     /\ batch' = [batch EXCEPT ![c] = NoBatch]
                     /\ ret' = [ret EXCEPT ![c] =
                                  Returned([arg[c] EXCEPT !.op = "calculate_all_auto_kpis"],
                                           results)]
                ELSE /\ pc' = [pc EXCEPT ![c] = FirstLabel(BatchNextOp(arg[c].op))]
                     /\ arg' = [arg EXCEPT ![c].op = BatchNextOp(arg[c].op)]
                     /\ batch' = [batch EXCEPT ![c].results = results]
                     /\ UNCHANGED ret
       ELSE /\ pc' = [pc EXCEPT ![c] = "idle"]
            /\ arg' = [arg EXCEPT ![c] = NoArg]
            /\ ret' = [ret EXCEPT ![c] = outcome]
            /\ UNCHANGED batch

\* The running calculation of caller c ends with outcome; the finally blocks
\* it unwinds return `released` connections to the pool.  A standalone call
\* hands the outcome to its caller; inside calculate_all_auto_kpis the outcome
\* (an exception as an error entry) is stored under the calculation's key and
\* the next calculation starts, the dict being returned after the fourth.
Complete(c, outcome, released) ==
    /\ held' = [held EXCEPT ![c] = @ - released]
    /\ loc' = [loc EXCEPT ![c] = NoLoc]
    /\ IF batch[c].active
       THEN LET entry   == IF outcome.kind = "raise"
                           THEN ErrorDict(outcome.call, outcome.exc) ELSE outcome
                results == (BatchKey(arg[c].op) :> entry) @@ batch[c].results
            IN  IF arg[c].op = "calculate_wo_age_profile"
                THEN /\ pc' = [pc EXCEPT ![c] = "idle"]
                     /\ arg' = [arg EXCEPT ![c] = NoArg]
                     /\ batch' = [batch EXCEPT ![c] = NoBatch]
                     /\ ret' = [ret EXCEPT ![c] =
                                  Returned([arg[c] EXCEPT !.op = "calculate_all_auto_kpis"],
                                           results)]
                ELSE /\ pc' = [pc EXCEPT ![c] = FirstLabel(BatchNextOp(arg[c].op))]
                     /\ arg' = [arg EXCEPT ![c].op = BatchNextOp(arg[c].op)]
                     /\ batch' = [batch EXCEPT ![c].results = results]
                     /\ UNCHANGED ret
       ELSE /\ pc' = [pc EXCEPT ![c] = "idle"]
            /\ arg' = [arg EXCEPT ![c] = NoArg]
            /\ ret' = [ret EXCEPT ![c] = outcome]
            /\ UNCHANGED batch

\* the exception swallowed: the calculation returns an empty dict
ThrowSwallowed(c, exc, released) == Complete(c, Returned(arg[c], <<>>), released)

\* an exception leaves the running calculation: calculate_manual_kpi turns it
\* into an error dict, the automatic calculations let it through
Throw(c, exc, released) ==
    Complete(c, IF arg[c].op = "calculate_manual_kpi"
                THEN ErrorDict(arg[c], exc) ELSE Raised(arg[c], exc), released)

\* the next statement of caller c is at label, with these locals
Goto(c, label, locals) ==
    /\ pc' = [pc EXCEPT ![c] = label]
    /\ loc' = [loc EXCEPT ![c] = locals]
    /\ UNCHANGED <<arg, batch, ret>>

(***************************************************************************)
(* Calls.                                                                  *)
(***************************************************************************)
\* a caller calls one of the four automatic calculations
CallAuto(c, op, period, username) ==
    /\ pc[c] = "idle"
    /\ pc' = [pc EXCEPT ![c] = FirstLabel(op)]
    /\ arg' = [arg EXCEPT ![c] = [op |-> op, kpi_name |-> "",
                                  measurement_period |-> period, username |-> username]]
    /\ ret' = [ret EXCEPT ![c] = NoRet]
    /\ UNCHANGED <<db, loc, batch, held>>

\* calculate_all_auto_kpis(measurement_period, username): results = {} and
\* the first calculation starts
CallAllAuto(c, period, username) ==
    /\ pc[c] = "idle"
    /\ pc' = [pc EXCEPT ![c] = "pm_q1"]
    /\ arg' = [arg EXCEPT ![c] = [op |-> "calculate_pm_adherence", kpi_name |-> "",
                                  measurement_period |-> period, username |-> username]]
    /\ batch' = [batch EXCEPT ![c] = [active |-> TRUE, results |-> <<>>]]
    /\ ret' = [ret EXCEPT ![c] = NoRet]
    /\ UNCHANGED <<db, loc, held>>

\* calculate_manual_kpi(kpi_name, measurement_period, username)
CallManual(c, kpi_name, period, username) ==
    /\ pc[c] = "idle"
    /\ pc' = [pc EXCEPT ![c] = "man_q1"]
    /\ arg' = [arg EXCEPT ![c] = [op |-> "calculate_manual_kpi", kpi_name |-> kpi_name,
                                  measurement_period |-> period, username |-> username]]
    /\ ret' = [ret EXCEPT ![c] = NoRet]
    /\ UNCHANGED <<db, loc, batch, held>>

\* get_kpi_results(measurement_period, kpi_name): one SELECT, its rows
\* returned, or its failure raised; the connection goes back either way
ListResults(c, measurement_period, kpi_name) ==
    LET call == [op |-> "get_kpi_results", kpi_name |-> kpi_name,
                 measurement_period |-> measurement_period, username |-> ""]
    IN  /\ pc[c] = "idle"
        /\ \/ ret' = [ret EXCEPT ![c] =
                         Returned(call, GetKpiResults(kpi_results, kpi_definitions,
                                                      measurement_period, kpi_name))]
           \/ ret' = [ret EXCEPT ![c] = Raised(call, "DataAccessFailure")]
        /\ UNCHANGED <<db, pc, arg, loc, batch, held>>

\* the number of KPIs refresh_dashboard expects: pending = 17 - total
ExpectedKpis == 17

\* the summary cards of refresh_dashboard for the results of a period
Summary(results) ==
    [total   |-> Len(results),
     passing |-> Cardinality({i \in DOMAIN results : results[i].meets_criteria = "True"}),
     failing |-> Cardinality({i \in DOMAIN results : results[i].meets_criteria = "False"}),
     pending |-> ExpectedKpis - Len(results)]

\* refresh_dashboard for the displayed period: the cards are set from the
\* listed results, or the failure of the listing is shown
RefreshDashboard(c, current_period) ==
    LET call == [op |-> "refresh_dashboard", kpi_name |-> NoName,
                 measurement_period |-> current_period, username |-> ""]
    IN  /\ pc[c] = "idle"
        /\ \/ ret' = [ret EXCEPT ![c] =
                         Returned(call, Summary(GetKpiResults(kpi_results, kpi_definitions,
                                                              current_period, NoName)))]
           \/ ret' = [ret EXCEPT ![c] = ErrorDict(call, "DataAccessFailure")]
        /\ UNCHANGED <<db, pc, arg, loc, batch, held>>

\* a save that also discards the stored result of its KPI and period
SaveManualDataDroppingResult(c, kpi_name, period, data_field, data_value, data_text, entered_by) ==
    /\ pc[c] = "idle"
    /\ kpi_manual_data' =
          UpsertManualData(kpi_manual_data,
              ManualRow(kpi_name, period, data_field, data_value, data_text, entered_by))
    /\ kpi_results' = kpi_results \ ResultsFor(kpi_results, kpi_name, period)
    /\ ret' = [ret EXCEPT ![c] =
                  Returned([op |-> "save_manual_data", kpi_name |-> kpi_name,
                            measurement_period |-> period, username |-> entered_by,
                            data_field |-> data_field, data_value |-> data_value,
                            data_text |-> data_text], TRUE)]
    /\ UNCHANGED <<weekly_pm_schedules, pm_completions, corrective_maintenance, today, kpi_definitions,
                   written, pc, arg, loc, batch, held>>

\* save_manual_data(kpi_name, measurement_period, data_field, data_value,
\* data_text, entered_by=entered_by): one statement, committed, or a failure
\* rolled back and raised again
SaveManualData(c, kpi_name, period, data_field, data_value, data_text, entered_by) ==
    LET call == [op |-> "save_manual_data", kpi_name |-> kpi_name,
                 measurement_period |-> period, username |-> entered_by,
                 data_field |-> data_field, data_value |-> data_value,
                 data_text |-> data_text]
    IN  /\ pc[c] = "idle"
        /\ \/ /\ kpi_manual_data' =
                    UpsertManualData(kpi_manual_data,
                        ManualRow(kpi_name, period, data_field, data_value, data_text,
                                  entered_by))
              /\ ret' = [ret EXCEPT ![c] = Returned(call, TRUE)]
           \/ /\ UNCHANGED kpi_manual_data
              /\ ret' = [ret EXCEPT ![c] = Raised(call, "DataAccessFailure")]
        /\ UNCHANGED <<kpi_results, weekly_pm_schedules, pm_completions,
                       corrective_maintenance, today, kpi_definitions, written, pc, arg, loc, batch,
                       held>>

\* the dashboard's save_manual_data: the handler starts on the fields of the
\* form of the selected KPI, in the order of the form
CallSaveForm(c, kpi_name, period, fields, username) ==
    /\ pc[c] = "idle"
    /\ pc' = [pc EXCEPT ![c] = "form"]
    /\ arg' = [arg EXCEPT ![c] = [op |-> "save_form", kpi_name |-> kpi_name,
                                  measurement_period |-> period, username |-> username]]
    /\ loc' = [loc EXCEPT ![c] = [fields |-> fields]]
    /\ ret' = [ret EXCEPT ![c] = NoRet]
    /\ UNCHANGED <<db, batch, held>>

\* one turn of the handler's loop: the field is saved and committed by its own
\* save_manual_data call, and after the last field the handler reports
\* success; a failed save ends the loop in the handler's except clause
SaveFormField(c) ==
    /\ pc[c] = "form"
    /\ LET field == Head(loc[c].fields)
           rest  == Tail(loc[c].fields)
       IN  \/ /\ kpi_manual_data' =
                    UpsertManualData(kpi_manual_data,
                        ManualRow(arg[c].kpi_name, arg[c].measurement_period,
                                  field.data_field, field.data_value, field.data_text,
                                  arg[c].username))
              /\ IF rest = <<>>
                 THEN Complete(c, Returned(arg[c], TRUE), 0)
                 ELSE Goto(c, "form", [fields |-> rest]) /\ UNCHANGED held
           \/ /\ UNCHANGED kpi_manual_data
              /\ Complete(c, ErrorDict(arg[c], "DataAccessFailure"), 0)
    /\ UNCHANGED <<kpi_results, kpi_definitions, weekly_pm_schedules, pm_completions,
                   corrective_maintenance, today, written>>

(***************************************************************************)
(* save_kpi_result, called at the end of every calculation with the row to *)
(* save; loc holds the row and the dict the calculation then returns.      *)
(***************************************************************************)
\* the connections a calculation has checked out itself when it calls
\* save_kpi_result: calculate_manual_kpi has returned the one of get_manual_data
\* the read connection of a calculation forgotten when it ends
OwnConnectionsForgotten(op) == 0

OwnConnections(op) == IF op = "calculate_manual_kpi" THEN 0 ELSE 1

\* the key of a result row
KeyOf(row) == <<row.kpi_name, row.measurement_period>>

\* another caller has computed a row for the same key and not yet written it
InFlight(c, row) ==
    \E d \in Callers \ {c} :
        /\ pc[d] \in {"save", "upsert"}
        /\ KeyOf(loc[d].row) = KeyOf(row)

\* the history after a write of row: the row, the row written to the key
\* before it, and whether a write to the key ever raced another evaluation
Record(history, row, racing) ==
    LET key == KeyOf(row)
        old == IF key \in DOMAIN history
               THEN history[key] ELSE [row |-> row, before |-> {}, raced |-> FALSE]
    IN  (key :> [row |-> row,
                 before |-> IF key \in DOMAIN history THEN {old.row} ELSE {},
                 raced |-> old.raced \/ racing]) @@ history

\* conn = self.pool.get_connection()
SaveKpiResultConnect(c) ==
    /\ pc[c] = "save"
    /\ held' = [held EXCEPT ![c] = @ + 1]
    /\ pc' = [pc EXCEPT ![c] = "upsert"]
    /\ UNCHANGED <<db, arg, loc, batch, ret>>

\* cursor.execute(INSERT ... ON CONFLICT ... DO UPDATE); conn.commit(), and
\* the calculation returns its dict; or the statement fails, is rolled back
\* and raised again
SaveKpiResultExecute(c) ==
    /\ pc[c] = "upsert"
    /\ \/ /\ kpi_results' = UpsertResult(kpi_results, loc[c].row)
          /\ written' = Record(written, loc[c].row, InFlight(c, loc[c].row))
          /\ Complete(c, Returned(arg[c], loc[c].out), 1 + OwnConnections(arg[c].op))
       \/ /\ UNCHANGED <<kpi_results, written>>
          /\ Throw(c, "DataAccessFailure", 1 + OwnConnections(arg[c].op))
    /\ UNCHANGED <<kpi_manual_data, weekly_pm_schedules, pm_completions,
                   corrective_maintenance, today, kpi_definitions>>

(***************************************************************************)
(* The statements of the calculations.  A SELECT reads the committed       *)
(* tables at the moment it runs; any statement may fail.                   *)
(***************************************************************************)
\* the locals a calculation hands to save_kpi_result
ToSave(row, out) == [row |-> row, out |-> out]

\* calculate_pm_adherence: the connection, the period, the scheduled count
PmQuery1(c) ==
    /\ pc[c] = "pm_q1"
    /\ LET p == ParsePeriod(arg[c].measurement_period)
       IN  \/ /\ p.exc # ""
              /\ Throw(c, p.exc, 0)
           \/ /\ p.exc = ""
              /\ held' = [held EXCEPT ![c] = @ + 1]
              /\ Goto(c, "pm_q2",
                      [start_date |-> p.start_date, end_date |-> p.end_date,
                       scheduled |-> CountDates(weekly_pm_schedules, p.start_date,
                                                p.end_date)])
           \/ /\ p.exc = ""
              /\ Throw(c, "DataAccessFailure", 0)
    /\ UNCHANGED db

\* calculate_pm_adherence: the completed count, then the formula
PmQuery2(c) ==
    /\ pc[c] = "pm_q2"
    /\ \/ LET scheduled == loc[c].scheduled
              completed == CountDates(pm_completions, loc[c].start_date, loc[c].end_date)
          IN  IF PmAdherenceFormula(scheduled, completed).adherence.k = "zerodiv"
              THEN Throw(c, "ZeroDivisionError", 1)
              ELSE /\ Goto(c, "save",
                           ToSave(PmAdherenceRow(arg[c].measurement_period,
                                                 arg[c].username, scheduled, completed),
                                  PmAdherenceDict(scheduled, completed)))
                   /\ UNCHANGED held
       \/ Throw(c, "DataAccessFailure", 1)
    /\ UNCHANGED db

\* calculate_wo_opened_vs_closed: the connection, the period, the opened count
WoOpenedClosedQuery1(c) ==
    /\ pc[c] = "woc_q1"
    /\ LET p == ParsePeriod(arg[c].measurement_period)
       IN  \/ /\ p.exc # ""
              /\ Throw(c, p.exc, 0)
           \/ /\ p.exc = ""
              /\ held' = [held EXCEPT ![c] = @ + 1]
              /\ Goto(c, "woc_q2",
                      [start_date |-> p.start_date, end_date |-> p.end_date,
                       opened |-> CountWorkOrders(corrective_maintenance, p.start_date,
                                                  p.end_date, AllStatuses)])
           \/ /\ p.exc = ""
              /\ Throw(c, "DataAccessFailure", 0)
    /\ UNCHANGED db

\* calculate_wo_opened_vs_closed: the closed count
WoOpenedClosedQuery2(c) ==
    /\ pc[c] = "woc_q2"
    /\ \/ /\ Goto(c, "woc_q3",
                  [start_date |-> loc[c].start_date, end_date |-> loc[c].end_date,
                   opened |-> loc[c].opened,
                   closed |-> CountWorkOrders(corrective_maintenance, loc[c].start_date,
                                              loc[c].end_date, {"Closed", "Completed"})])
          /\ UNCHANGED held
       \/ Throw(c, "DataAccessFailure", 1)
    /\ UNCHANGED db

\* calculate_wo_opened_vs_closed: the currently open count
WoOpenedClosedQuery3(c) ==
    /\ pc[c] = "woc_q3"
    /\ \/ LET currently_open == CountWorkOrders(corrective_maintenance,
                                                loc[c].start_date, loc[c].end_date,
                                                {"Open"})
          IN  /\ Goto(c, "save",
                      ToSave(WoOpenedClosedRow(arg[c].measurement_period, arg[c].username,
                                               loc[c].opened, loc[c].closed,
                                               currently_open),
                             WoOpenedClosedDict(loc[c].opened, loc[c].closed,
                                                currently_open)))
              /\ UNCHANGED held
       \/ Throw(c, "DataAccessFailure", 1)
    /\ UNCHANGED db

\* calculate_wo_backlog: the connection, the period, the raised count
WoBacklogQuery1(c) ==
    /\ pc[c] = "bk_q1"
    /\ LET p == ParsePeriod(arg[c].measurement_period)
       IN  \/ /\ p.exc # ""
              /\ Throw(c, p.exc, 0)
           \/ /\ p.exc = ""
              /\ held' = [held EXCEPT ![c] = @ + 1]
              /\ Goto(c, "bk_q2",
                      [start_date |-> p.start_date, end_date |-> p.end_date,
                       raised_this_month |->
                           CountWorkOrders(corrective_maintenance, p.start_date,
                                           p.end_date, AllStatuses)])
           \/ /\ p.exc = ""
              /\ Throw(c, "DataAccessFailure", 0)
    /\ UNCHANGED db

\* calculate_wo_backlog: the open count, then the formula
WoBacklogQuery2(c) ==
    /\ pc[c] = "bk_q2"
    /\ \/ LET raised_this_month == loc[c].raised_this_month
              open_wo == CountWorkOrders(corrective_maintenance, loc[c].start_date,
                                         loc[c].end_date, {"Open"})
          IN  IF WoBacklogFormula(raised_this_month, open_wo).backlog_pct.k = "zerodiv"
              THEN Throw(c, "ZeroDivisionError", 1)
              ELSE /\ Goto(c, "save",
                           ToSave(WoBacklogRow(arg[c].measurement_period, arg[c].username,
                                               raised_this_month, open_wo),
                                  WoBacklogDict(raised_this_month, open_wo)))
                   /\ UNCHANGED held
       \/ Throw(c, "DataAccessFailure", 1)
    /\ UNCHANGED db

\* calculate_wo_age_profile: the connection, the open work orders, the ages
WoAgeQuery(c) ==
    /\ pc[c] = "age_q1"
    /\ \/ LET counts == WoAgeCounts(corrective_maintenance, today)
          IN  /\ held' = [held EXCEPT ![c] = @ + 1]
              /\ Goto(c, "save",
                      ToSave(WoAgeRow(arg[c].measurement_period, arg[c].username, counts),
                             WoAgeDict(counts)))
       \/ Throw(c, "DataAccessFailure", 0)
    /\ UNCHANGED db

\* calculate_manual_kpi: get_manual_data, then the formula of the KPI
ManualQuery(c) ==
    /\ pc[c] = "man_q1"
    /\ \/ LET manual_data == SelectManualData(kpi_manual_data, arg[c].kpi_name,
                                              arg[c].measurement_period)
              calc == ManualFormula(arg[c].kpi_name, DataDict(manual_data))
          IN  IF manual_data = {}
              THEN Complete(c, ErrorDict(arg[c], "NoInputData"), 0)
              ELSE IF calc.exc # ""
              THEN Throw(c, calc.exc, 0)
              ELSE IF ManualSaves(calc)
              THEN /\ Goto(c, "save",
                           ToSave(ManualResultRow(arg[c].kpi_name,
                                                  arg[c].measurement_period,
                                                  arg[c].username, calc),
                                  ManualDict(calc)))
                   /\ UNCHANGED held
              ELSE Complete(c, Returned(arg[c], ManualDict(calc)), 0)
       \/ Throw(c, "DataAccessFailure", 0)
    /\ UNCHANGED db

\* the next statement of a running call
Step(c) ==
    \/ PmQuery1(c) \/ PmQuery2(c)
    \/ WoOpenedClosedQuery1(c) \/ WoOpenedClosedQuery2(c) \/ WoOpenedClosedQuery3(c)
    \/ WoBacklogQuery1(c) \/ WoBacklogQuery2(c)
    \/ WoAgeQuery(c)
    \/ ManualQuery(c)
    \/ SaveKpiResultConnect(c) \/ SaveKpiResultExecute(c)

(***************************************************************************)
(* The other users of the database: the maintenance application inserts    *)
(* schedules, completions and work orders and changes a work order's       *)
(* status.                                                                 *)
(***************************************************************************)
InsertSchedule(ymd) ==
    /\ weekly_pm_schedules' = BagAdd(weekly_pm_schedules, ymd)
    /\ UNCHANGED <<kpi_manual_data, kpi_results, pm_completions, corrective_maintenance,
                   today, kpi_definitions, written, proc>>

InsertCompletion(ymd) ==
    /\ pm_completions' = BagAdd(pm_completions, ymd)
    /\ UNCHANGED <<kpi_manual_data, kpi_results, weekly_pm_schedules,
                   corrective_maintenance, today, kpi_definitions, written, proc>>

InsertWorkOrder(ymd, status) ==
    /\ corrective_maintenance' = BagAdd(corrective_maintenance, WorkOrder(ymd, status))
    /\ UNCHANGED <<kpi_manual_data, kpi_results, weekly_pm_schedules, pm_completions,
                   today, kpi_definitions, written, proc>>

SetWorkOrderStatus(status) ==
    /\ \E x \in DOMAIN corrective_maintenance :
          /\ x.status # status
          /\ corrective_maintenance' =
                BagAdd(BagRemove(corrective_maintenance, x), [x EXCEPT !.status = status])
    /\ UNCHANGED <<kpi_manual_data, kpi_results, weekly_pm_schedules, pm_completions,
                   today, kpi_definitions, written, proc>>

(***************************************************************************)
(* Spec: one caller, every operation, the other users of the database and  *)
(* failing statements, from an empty database, over a small domain.        *)
(***************************************************************************)
\* the number of calls and outside changes of one run
MaxCalls == 4

P_2024_02 == <<"2", "0", "2", "4", "-", "0", "2">>
P_2024_13 == <<"2", "0", "2", "4", "-", "1", "3">>

SpecPeriods == {P_2024_02, P_2024_13}

Idle ==
    /\ pc = [c \in Callers |-> "idle"]
    /\ arg = [c \in Callers |-> NoArg]
    /\ loc = [c \in Callers |-> NoLoc]
    /\ batch = [c \in Callers |-> NoBatch]
    /\ ret = [c \in Callers |-> NoRet]
    /\ held = [c \in Callers |-> 0]
    /\ calls = 0

Init ==
    /\ kpi_manual_data = {}
    /\ kpi_results = {}
    /\ weekly_pm_schedules = EmptyBag
    /\ pm_completions = EmptyBag
    /\ corrective_maintenance = EmptyBag
    /\ today = <<2024, 5, 1>>
    /\ written = <<>>
    /\ kpi_definitions = Catalogue
    /\ Idle

\* a call of the caller
SpecCall(c) ==
    \/ \E op \in {"calculate_pm_adherence", "calculate_wo_opened_vs_closed",
                  "calculate_wo_backlog", "calculate_wo_age_profile"},
          period \in SpecPeriods :
          CallAuto(c, op, period, "alice")
    \/ \E kpi_name \in {"FR1", WO_BACKLOG}, period \in SpecPeriods :
          CallManual(c, kpi_name, period, "alice")
    \/ \E period \in SpecPeriods, data_field \in {"accident_count", "hours_worked"},
          data_value \in {Whole(0), Whole(2)} :
          SaveManualData(c, "FR1", period, data_field, data_value, None, "alice")

\* a change made by another user of the database
SpecOutside ==
    \/ InsertSchedule(<<2024, 2, 5>>)
    \/ InsertCompletion(<<2024, 2, 6>>)
    \/ InsertWorkOrder(<<2024, 2, 10>>, "Open")
    \/ SetWorkOrderStatus("Closed")

Next ==
    \/ /\ calls < MaxCalls
       /\ calls' = calls + 1
       /\ (SpecCall("c1") \/ SpecOutside)
    \/ /\ Step("c1")
       /\ UNCHANGED calls

Spec == Init /\ [][Next]_vars

(***************************************************************************)
(* SpecBatch: calculate_all_auto_kpis, the other users of the database and *)
(* failing statements, from an empty database.                             *)
(***************************************************************************)
\* the number of batch calls and outside changes of one run
MaxBatchCalls == 3

NextBatch ==
    \/ /\ calls < MaxBatchCalls
       /\ calls' = calls + 1
       /\ \/ \E period \in SpecPeriods : CallAllAuto("c1", period, "alice")
          \/ SpecOutside
    \/ /\ Step("c1")
       /\ UNCHANGED calls

SpecBatch == Init /\ [][NextBatch]_vars

(***************************************************************************)
(* SpecCalc: the calculations as functions of their inputs.  The initial   *)
(* state is a database holding either the manual data of one (KPI, period) *)
(* or schedules and completions or work orders, drawn from sets that cover *)
(* the formulas' cases; one caller then evaluates.                         *)
(***************************************************************************)
\* the number of evaluations of one run
MaxCalcCalls == 1

\* what the database holds for one field: no row, or a row's value and text
Absent == [present |-> FALSE, data_value |-> None, data_text |-> None]
Opt(data_value, data_text) ==
    [present |-> TRUE, data_value |-> data_value, data_text |-> data_text]

\* a numeric field: no row, one of the numbers, or a text that is no number
NumOpts(S) == {Opt(Whole(n), None) : n \in S} \cup {Absent, Opt(None, Text(<<"x">>))}

FieldOptions(data_field) ==
    CASE data_field = "accident_count" -> NumOpts({0, 2})
      [] data_field = "hours_worked" -> NumOpts({0, 1, 100, -1})
      [] data_field = "near_miss_count" -> NumOpts({0, 3})
      [] data_field = "p1_within_target" -> NumOpts({0, 18, 19, 20})
      [] data_field = "p1_total" -> NumOpts({0, 20, -1})
      [] data_field = "p1_operating_hours" -> NumOpts({0, 80, 81, 161})
      [] data_field = "p1_failure_count" -> NumOpts({0, 1, 2, -1})
      [] data_field = "p1_assets_meeting_target" -> NumOpts({0, 19, 20})
      [] data_field = "p1_total_assets" -> NumOpts({0, 20, -1})
      [] data_field = "total_response_time_minutes" -> NumOpts({0, 15, 16, 31})
      [] data_field = "wo_count" -> NumOpts({0, 1, 2, -1})
      [] data_field = "nc_count" -> NumOpts({0, 1})
      [] data_field = "nc_closed_on_time" -> NumOpts({0, 1, 2})
      [] data_field = "nc_total" -> NumOpts({0, 2, -1})
      [] data_field = "total_quote_time_hours" -> NumOpts({0, 48, 49, 97})
      [] data_field = "quote_count" -> NumOpts({0, 1, 2, -1})
      [] data_field = "satisfaction_score" -> NumOpts({0, 89, 90})
      [] data_field = "confirmation_score" -> NumOpts({0, 89, 90})
      [] data_field = "breakdown_analysis" ->
            {Absent, Opt(None, Text(<<"p", "u", "m", "p">>)), Opt(None, Text(<<>>)),
             Opt(Whole(5), None)}
      [] data_field = "comment" -> {Absent, Opt(None, Text(<<"o", "k">>))}
      [] OTHER -> {Absent, Opt(Whole(1), None)}

\* a name calculate_manual_kpi has no branch for
UNLISTED_KPI == "Unlisted KPI"

\* the fields stored for a KPI: those of its form and one that is in no form
StoredFields(kpi_name) == RequiredFields(kpi_name) \cup {"comment"}

RECURSIVE Assignments(_)
Assignments(F) ==
    IF F = {} THEN {<<>>}
    ELSE LET x == CHOOSE x \in F : TRUE
         IN  {(x :> o) @@ g : o \in FieldOptions(x), g \in Assignments(F \ {x})}

ManualTable(kpi_name, period, f) ==
    {ManualRow(kpi_name, period, x, f[x].data_value, f[x].data_text, "alice") :
        x \in {y \in DOMAIN f : f[y].present}}

ManualTables ==
    UNION {{ManualTable(kpi_name, P_2024_02, f) : f \in Assignments(StoredFields(kpi_name))} :
           kpi_name \in ManualKpis \cup {UNLISTED_KPI}}

\* n rows of the month, the first on its first day and the others on its last,
\* beside rows of the day before and of the day after the month
DateBag(n) ==
    [x \in {<<2024, 1, 31>>, <<2024, 3, 1>>}
           \cup (IF n >= 1 THEN {<<2024, 2, 1>>} ELSE {})
           \cup (IF n >= 2 THEN {<<2024, 2, 29>>} ELSE {}) |->
        IF x = <<2024, 2, 29>> THEN n - 1 ELSE 1]

\* work orders of the month by status, beside an open one of the month before
\* and a closed one of the month after
WorkOrderBag(open, closed, other) ==
    LET counts == (WorkOrder(<<2024, 2, 10>>, "Open") :> open)
                  @@ (WorkOrder(<<2024, 2, 1>>, "Closed") :> closed)
                  @@ (WorkOrder(<<2024, 2, 29>>, "In Progress") :> other)
                  @@ (WorkOrder(<<2024, 1, 31>>, "Open") :> 1)
                  @@ (WorkOrder(<<2024, 3, 1>>, "Closed") :> 1)
    IN  [x \in {y \in DOMAIN counts : counts[y] > 0} |-> counts[x]]

\* a work order another user opens between the two statements of
\* calculate_wo_backlog
LateWorkOrder == WorkOrder(<<2024, 2, 11>>, "Open")

InitCalc ==
    /\ kpi_results = {}
    /\ written = <<>>
    /\ kpi_definitions = Catalogue
    /\ \/ /\ kpi_manual_data \in ManualTables
          /\ weekly_pm_schedules = EmptyBag
          /\ pm_completions = EmptyBag
          /\ corrective_maintenance = EmptyBag
          /\ today = <<2024, 4, 11>>
       \/ /\ kpi_manual_data = {}
          /\ weekly_pm_schedules \in {DateBag(n) : n \in {0, 1, 3, 20, 32, 1019}}
          /\ pm_completions \in {DateBag(n) : n \in {0, 1, 19, 20, 33, 968}}
          /\ corrective_maintenance = EmptyBag
          /\ today = <<2024, 4, 11>>
       \/ /\ kpi_manual_data = {}
          /\ weekly_pm_schedules = EmptyBag
          /\ pm_completions = EmptyBag
          /\ corrective_maintenance \in
                {WorkOrderBag(open, closed, other) :
                    open \in {0, 1, 9, 10, 11, 40, 41}, closed \in {0, 9, 89, 90},
                    other \in {0, 1}}
          /\ today \in {<<2024, 4, 10>>, <<2024, 4, 11>>}
    /\ Idle

NextCalc ==
    \/ /\ calls < MaxCalcCalls
       /\ calls' = calls + 1
       /\ \/ \E op \in {"calculate_pm_adherence", "calculate_wo_opened_vs_closed",
                        "calculate_wo_backlog", "calculate_wo_age_profile"} :
                CallAuto("c1", op, P_2024_02, "alice")
          \/ \E kpi_name \in {r.kpi_name : r \in kpi_manual_data} \cup {"Near Miss"} :
                CallManual("c1", kpi_name, P_2024_02, "alice")
    \/ /\ Step("c1")
       /\ UNCHANGED calls
    \/ /\ pc["c1"] = "bk_q2"
       /\ LateWorkOrder \notin DOMAIN corrective_maintenance
       /\ InsertWorkOrder(LateWorkOrder.created_date.ymd, LateWorkOrder.status)
       /\ UNCHANGED calls

SpecCalc == InitCalc /\ [][NextCalc]_vars

(***************************************************************************)
(* SpecConc: two callers whose statements interleave, and the other users  *)
(* of the database.                                                        *)
(***************************************************************************)
\* the number of calls and outside changes of one run
MaxConcCalls == 3

UserOf(c) == IF c = "c1" THEN "alice" ELSE "bob"

ConcCall(c) ==
    \/ \E op \in {"calculate_pm_adherence", "calculate_wo_backlog"} :
          CallAuto(c, op, P_2024_02, UserOf(c))
    \/ CallManual(c, "FR1", P_2024_02, UserOf(c))
    \/ \E data_value \in {Whole(0), Whole(2)} :
          SaveManualData(c, "FR1", P_2024_02, "accident_count", data_value, None,
                         UserOf(c))

ConcOutside ==
    \/ InsertSchedule(<<2024, 2, 5>>)
    \/ InsertWorkOrder(<<2024, 2, 10>>, "Open")
    \/ SetWorkOrderStatus("Closed")

NextConc ==
    \/ /\ calls < MaxConcCalls
       /\ calls' = calls + 1
       /\ ((\E c \in Callers : ConcCall(c)) \/ ConcOutside)
    \/ /\ \E c \in Callers : Step(c)
       /\ UNCHANGED calls

SpecConc == Init /\ [][NextConc]_vars

(***************************************************************************)
(* SpecAge: calculate_wo_age_profile over work orders whose created_date   *)
(* is a date, a datetime, a text in one of the two forms, another text or  *)
(* NULL, on the 60th and on the 61st day after 2024-02-10, for several     *)
(* period tokens.                                                          *)
(***************************************************************************)
MaxAgeCalls == 2

P_2023_12 == <<"2", "0", "2", "3", "-", "1", "2">>

AgePeriods == {P_2024_02, P_2023_12, P_2024_13}

\* the rows a table of SpecAge is made of
OpenDated == WorkOrderRow(DateValue(<<2024, 2, 10>>), "Open")
OpenTimed == WorkOrderRow(DateTimeValue(<<2024, 2, 9>>), "Open")
OpenDayText ==
    WorkOrderRow(TextValue(<<"2", "0", "2", "4", "-", "0", "2", "-", "1", "0">>), "Open")
OpenTimeText ==
    WorkOrderRow(TextValue(<<"2", "0", "2", "4", "-", "0", "2", "-", "1", "1", " ",
                             "0", "8", ":", "3", "0", ":", "0", "0">>), "Open")
OpenSlashText ==
    WorkOrderRow(TextValue(<<"1", "0", "/", "0", "2", "/", "2", "0", "2", "4">>), "Open")
OpenNoDayText ==
    WorkOrderRow(TextValue(<<"2", "0", "2", "4", "-", "0", "2", "-", "3", "0">>), "Open")
OpenNull == WorkOrderRow(NullValue, "Open")
ClosedOld == WorkOrderRow(DateValue(<<2023, 12, 1>>), "Closed")

AgeRows == {OpenDated, OpenTimed, OpenDayText, OpenTimeText, OpenSlashText,
            OpenNoDayText, OpenNull, ClosedOld}

InitAge ==
    /\ kpi_manual_data = {}
    /\ kpi_results = {}
    /\ written = <<>>
    /\ kpi_definitions = Catalogue
    /\ weekly_pm_schedules = EmptyBag
    /\ pm_completions = EmptyBag
    /\ \E rows \in SUBSET AgeRows : corrective_maintenance = [x \in rows |-> 1]
    /\ today \in {<<2024, 4, 10>>, <<2024, 4, 11>>}
    /\ Idle

NextAge ==
    \/ /\ calls < MaxAgeCalls
       /\ calls' = calls + 1
       /\ \E period \in AgePeriods :
             CallAuto("c1", "calculate_wo_age_profile", period, "alice")
    \/ /\ Step("c1")
       /\ UNCHANGED calls

SpecAge == InitAge /\ [][NextAge]_vars

(***************************************************************************)
(* SpecPeriod: the three period-scoped calculations over the months of a   *)
(* common year and of a leap year and the Februaries of 1900 and 2000,     *)
(* each table holding a row on the first and on the last day of every      *)
(* month.                                                                  *)
(***************************************************************************)
MaxPeriodCalls == 1

PeriodYears == {1900, 2000, 2023, 2024}

YearChars(year) ==
    CASE year = 1900 -> <<"1", "9", "0", "0">>
      [] year = 2000 -> <<"2", "0", "0", "0">>
      [] year = 2023 -> <<"2", "0", "2", "3">>
      [] OTHER -> <<"2", "0", "2", "4">>

MonthChars(month) ==
    CASE month = 1 -> <<"0", "1">> [] month = 2 -> <<"0", "2">>
      [] month = 3 -> <<"0", "3">> [] month = 4 -> <<"0", "4">>
      [] month = 5 -> <<"0", "5">> [] month = 6 -> <<"0", "6">>
      [] month = 7 -> <<"0", "7">> [] month = 8 -> <<"0", "8">>
      [] month = 9 -> <<"0", "9">> [] month = 10 -> <<"1", "0">>
      [] month = 11 -> <<"1", "1">> [] OTHER -> <<"1", "2">>

\* the YYYY-MM token of a month
TokenOf(year, month) == YearChars(year) \o <<"-">> \o MonthChars(month)

\* the months evaluated
PeriodMonths ==
    {ym \in PeriodYears \X (1..12) : ym[1] \in {2023, 2024} \/ ym[2] = 2}

\* the last day of a month by the calendar
LastDayOf(year, month) ==
    CASE month \in {4, 6, 9, 11} -> 30
      [] month = 2 /\ year \in {2000, 2024} -> 29
      [] month = 2 -> 28
      [] OTHER -> 31

\* the first and the last day of every month of the years
BoundaryDates ==
    UNION {{<<y, m, 1>>, <<y, m, LastDayOf(y, m)>>} : y \in PeriodYears, m \in 1..12}

InitPeriod ==
    /\ kpi_manual_data = {}
    /\ kpi_results = {}
    /\ written = <<>>
    /\ kpi_definitions = Catalogue
    /\ weekly_pm_schedules = [x \in BoundaryDates |-> 1]
    /\ pm_completions = [x \in BoundaryDates |-> 1]
    /\ corrective_maintenance = [x \in {WorkOrder(d, "Open") : d \in BoundaryDates} |-> 1]
    /\ today = <<2024, 5, 1>>
    /\ Idle

NextPeriod ==
    \/ /\ calls < MaxPeriodCalls
       /\ calls' = calls + 1
       /\ \E ym \in PeriodMonths,
             op \in {"calculate_pm_adherence", "calculate_wo_opened_vs_closed",
                     "calculate_wo_backlog"} :
             CallAuto("c1", op, TokenOf(ym[1], ym[2]), "alice")
    \/ /\ Step("c1")
       /\ UNCHANGED calls

SpecPeriod == InitPeriod /\ [][NextPeriod]_vars


(***************************************************************************)
(* Listing: results of four KPIs over two periods are stored, the catalogue *)
(* is complete or lacks the definition of Near Miss, and the list is asked  *)
(* for with and without each filter.                                       *)
(***************************************************************************)
MaxListCalls == 1

StoredResult(kpi_name, period) ==
    ResultRow(kpi_name, period, Whole(1), NoText, Whole(0), "True", "alice", NoText)

StoredResults ==
    {StoredResult(kpi_name, period) :
        kpi_name \in {"FR1", "Near Miss", PM_ADHERENCE, WO_BACKLOG},
        period \in {P_2023_12, P_2024_02}}

InitList ==
    /\ kpi_manual_data = {}
    /\ kpi_results \in SUBSET StoredResults
    /\ kpi_definitions \in {Catalogue, Catalogue \ {Definition("Near Miss")}}
    /\ weekly_pm_schedules = EmptyBag
    /\ pm_completions = EmptyBag
    /\ corrective_maintenance = EmptyBag
    /\ today = <<2024, 5, 1>>
    /\ written = <<>>
    /\ Idle

NextList ==
    /\ calls < MaxListCalls
    /\ calls' = calls + 1
    /\ \E measurement_period \in {NoPeriod, P_2023_12, P_2024_02},
          kpi_name \in {NoName, "FR1", "Near Miss", WO_BACKLOG} :
          ListResults("c1", measurement_period, kpi_name)

SpecList == InitList /\ [][NextList]_vars

(***************************************************************************)
(* A correction during an evaluation: FR1 has two accidents in 100 hours    *)
(* stored; the users evaluate FR1 and correct the accidents to zero.       *)
(***************************************************************************)
MaxStaleCalls == 3

InitStale ==
    /\ kpi_manual_data =
          {ManualRow("FR1", P_2024_02, "accident_count", Whole(2), None, "alice"),
           ManualRow("FR1", P_2024_02, "hours_worked", Whole(100), None, "alice")}
    /\ kpi_results = {}
    /\ weekly_pm_schedules = EmptyBag
    /\ pm_completions = EmptyBag
    /\ corrective_maintenance = EmptyBag
    /\ today = <<2024, 5, 1>>
    /\ written = <<>>
    /\ kpi_definitions = Catalogue
    /\ Idle

NextStale ==
    \/ /\ calls < MaxStaleCalls
       /\ calls' = calls + 1
       /\ \E c \in Callers :
             \/ CallManual(c, "FR1", P_2024_02, UserOf(c))
             \/ SaveManualData(c, "FR1", P_2024_02, "accident_count", Whole(0), None,
                               UserOf(c))
    \/ /\ \E c \in Callers : Step(c)
       /\ UNCHANGED calls

SpecStale == InitStale /\ [][NextStale]_vars

(***************************************************************************)
(* A form saved during an evaluation: FR1 has two accidents in 100 hours   *)
(* stored; one user saves the form with one accident in 200 hours while    *)
(* the other evaluates FR1.                                                *)
(***************************************************************************)
MaxFormCalls == 2

FormField(data_field, n) ==
    [data_field |-> data_field, data_value |-> Whole(n), data_text |-> None]

OldForm == <<FormField("accident_count", 2), FormField("hours_worked", 100)>>

NewForm == <<FormField("accident_count", 1), FormField("hours_worked", 200)>>

FormRows(form, username) ==
    {ManualRow("FR1", P_2024_02, form[i].data_field, form[i].data_value,
               form[i].data_text, username) : i \in DOMAIN form}

InitForm ==
    /\ kpi_manual_data = FormRows(OldForm, "alice")
    /\ kpi_results = {}
    /\ weekly_pm_schedules = EmptyBag
    /\ pm_completions = EmptyBag
    /\ corrective_maintenance = EmptyBag
    /\ today = <<2024, 5, 1>>
    /\ written = <<>>
    /\ kpi_definitions = Catalogue
    /\ Idle

NextForm ==
    \/ /\ calls < MaxFormCalls
       /\ calls' = calls + 1
       /\ \E c \in Callers :
             \/ CallManual(c, "FR1", P_2024_02, UserOf(c))
             \/ CallSaveForm(c, "FR1", P_2024_02, NewForm, UserOf(c))
    \/ /\ \E c \in Callers : Step(c) \/ SaveFormField(c)
       /\ UNCHANGED calls

SpecForm == InitForm /\ [][NextForm]_vars

(***************************************************************************)
(* The dashboard: results of the first n of the sixteen KPIs are stored    *)
(* for February 2024, with or without results of December 2023, and the   *)
(* dashboard is refreshed for either month.                                *)
(***************************************************************************)
MaxDashCalls == 1

KpiSequence ==
    <<PM_ADHERENCE, WO_OPENED_CLOSED, WO_BACKLOG, WO_AGE_PROFILE, "FR1", "Near Miss",
      "TTR (Time to Repair) Adherence", "MTBF Mean Time Between Failure",
      "Technical Availability Adherence", "MRT (Mean Response Time)", "Top Breakdown",
      "Purchaser Monthly process Confirmation", "Purchaser satisfaction",
      "Non Conformances raised", "Non Conformances closed",
      "Mean Time to Deliver a Quote">>

InitDash ==
    /\ kpi_manual_data = {}
    /\ \E n \in 0..Len(KpiSequence), earlier \in SUBSET {PM_ADHERENCE, "FR1"} :
          kpi_results = {StoredResult(KpiSequence[i], P_2024_02) : i \in 1..n}
                           \cup {StoredResult(kpi_name, P_2023_12) : kpi_name \in earlier}
    /\ kpi_definitions = Catalogue
    /\ weekly_pm_schedules = EmptyBag
    /\ pm_completions = EmptyBag
    /\ corrective_maintenance = EmptyBag
    /\ today = <<2024, 5, 1>>
    /\ written = <<>>
    /\ Idle

NextDash ==
    /\ calls < MaxDashCalls
    /\ calls' = calls + 1
    /\ \E current_period \in {P_2024_02, P_2023_12} : RefreshDashboard("c1", current_period)

SpecDash == InitDash /\ [][NextDash]_vars

(***************************************************************************)
(* Manual data entry: the two users save data points of FR1, over two      *)
(* periods and two fields, with a number alone or a number and a note.     *)
(***************************************************************************)
MaxSaveCalls == 3

SavedContents == {<<Whole(0), None>>, <<Whole(2), Text("note")>>}

NextSave ==
    /\ calls < MaxSaveCalls
    /\ calls' = calls + 1
    /\ \E c \in Callers, period \in {P_2024_02, P_2023_12},
          data_field \in {"accident_count", "hours_worked"},
          content \in SavedContents :
          SaveManualData(c, "FR1", period, data_field, content[1], content[2],
                         UserOf(c))

SpecSave == Init /\ [][NextSave]_vars
(***************************************************************************)
(* Properties.                                                             *)
(***************************************************************************)
EvaluationOps == {"calculate_pm_adherence", "calculate_wo_opened_vs_closed",
                  "calculate_wo_backlog", "calculate_wo_age_profile",
                  "calculate_manual_kpi"}

\* the KPI name and period an evaluation call is about
EvalKey(call) ==
    <<CASE call.op = "calculate_pm_adherence" -> PM_ADHERENCE
        [] call.op = "calculate_wo_opened_vs_closed" -> WO_OPENED_CLOSED
        [] call.op = "calculate_wo_backlog" -> WO_BACKLOG
        [] call.op = "calculate_wo_age_profile" -> WO_AGE_PROFILE
        [] OTHER -> call.kpi_name,
      call.measurement_period>>

\* the rows of the result store with a key
RowsOf(key) ==
    {r \in kpi_results : r.kpi_name = key[1] /\ r.measurement_period = key[2]}

\* a stored row holds the values of the dict an evaluation returned
HoldsValuesOf(row, call, val) ==
    /\ row.calculated_by = call.username
    /\ CASE call.op = "calculate_pm_adherence" ->
              /\ row.calculated_value = val.value
              /\ row.meets_criteria = val.meets_criteria
              /\ row.notes.a = Whole(val.scheduled)
              /\ row.notes.b = Whole(val.completed)
         [] call.op = "calculate_wo_opened_vs_closed" ->
              /\ row.calculated_value = Whole(val.currently_open)
              /\ row.meets_criteria = val.meets_criteria
              /\ row.notes.a = Whole(val.opened)
              /\ row.notes.b = Whole(val.closed)
         [] call.op = "calculate_wo_backlog" ->
              /\ row.calculated_value = Whole(val.open_wo)
              /\ row.meets_criteria = val.meets_criteria
              /\ row.notes.b = Whole(val.raised_this_month)
         [] call.op = "calculate_wo_age_profile" ->
              /\ row.calculated_value = Whole(val.over_60_days)
              /\ row.meets_criteria = val.meets_criteria
              /\ row.notes.a = Whole(val.total_open)
         [] OTHER ->
              /\ row.calculated_value = val.value
              /\ row.calculated_text = val.text
              /\ row.meets_criteria = val.meets_criteria

\* an evaluation returned a dict whose values it has saved
ReturnedSaved(r) ==
    /\ r.kind = "ok"
    /\ r.call.op \in EvaluationOps
    /\ r.call.op = "calculate_manual_kpi" => (r.val.value # None \/ r.val.text # NoText)

\* C1: after any sequence of automatic evaluations, manual evaluations and
\* manual-data saves the result store holds at most one row per (KPI name,
\* period); the row of a key is the one written to it last, and when an
\* evaluation has returned, the row of its key holds the values it returned
\* (so after two evaluations of a key, those of the second).
C1_OneRowPerKeyLatestWins ==
    /\ \A r1, r2 \in kpi_results :
          (r1.kpi_name = r2.kpi_name /\ r1.measurement_period = r2.measurement_period)
             => r1 = r2
    /\ \A key \in DOMAIN written : RowsOf(key) = {written[key].row}
    /\ \A r \in kpi_results : <<r.kpi_name, r.measurement_period>> \in DOMAIN written
    /\ (pc["c1"] = "idle" /\ ReturnedSaved(ret["c1"])) =>
          \E row \in kpi_results :
             /\ RowsOf(EvalKey(ret["c1"].call)) = {row}
             /\ HoldsValuesOf(row, ret["c1"].call, ret["c1"].val)

\* a key was evaluated twice with different results, and the second
\* evaluation has returned
C1_Witness ==
    /\ pc["c1"] = "idle"
    /\ ReturnedSaved(ret["c1"])
    /\ EvalKey(ret["c1"].call) \in DOMAIN written
    /\ \E old \in written[EvalKey(ret["c1"].call)].before :
          old.calculated_value # written[EvalKey(ret["c1"].call)].row.calculated_value

BatchKeys == {"pm_adherence", "wo_opened_closed", "wo_backlog", "wo_age_profile"}

BatchReturned(r) == r.kind = "ok" /\ r.call.op = "calculate_all_auto_kpis"

\* C2: calculate_all_auto_kpis returns a mapping with exactly the four keys;
\* an entry is a computed result, whose values are in the result store, or an
\* error entry of a malformed period or of a failed statement; a malformed
\* period makes the three period-scoped entries errors.
C2_BatchIsolatesFailures ==
    (pc["c1"] = "idle" /\ BatchReturned(ret["c1"])) =>
       /\ DOMAIN ret["c1"].val = BatchKeys
       /\ \A k \in BatchKeys :
             LET e == ret["c1"].val[k]
             IN  /\ e.kind \in {"ok", "error"}
                 /\ BatchKey(e.call.op) = k
                 /\ e.call.measurement_period = ret["c1"].call.measurement_period
                 /\ e.kind = "ok" =>
                       \E row \in kpi_results :
                          /\ RowsOf(EvalKey(e.call)) = {row}
                          /\ HoldsValuesOf(row, e.call, e.val)
                 /\ e.kind = "error" =>
                       e.exc \in {"DataAccessFailure", "ValueError", "IllegalMonthError"}
                 /\ (e.kind = "error" /\ e.exc # "DataAccessFailure") =>
                       (k # "wo_age_profile"
                        /\ ret["c1"].call.measurement_period = P_2024_13)
                 /\ (ret["c1"].call.measurement_period = P_2024_13
                     /\ k # "wo_age_profile") => e.kind = "error"

\* a batch returned with exactly one error entry, a failed statement's
C2_Witness ==
    /\ pc["c1"] = "idle"
    /\ BatchReturned(ret["c1"])
    /\ DOMAIN ret["c1"].val = BatchKeys
    /\ \E k \in BatchKeys :
          /\ ret["c1"].val[k].kind = "error"
          /\ ret["c1"].val[k].exc = "DataAccessFailure"
          /\ \A j \in BatchKeys \ {k} : ret["c1"].val[j].kind = "ok"

\* C3: the statement of calculate_manual_kpi that finds no Manual Data Point
\* for the (KPI, period) ends the call with an error and leaves the result
\* store as it is.
C3_NoInputDataLeavesStore ==
    [][\A c \in Callers :
          (/\ pc[c] = "man_q1"
           /\ pc'[c] # "man_q1"
           /\ ~\E r \in kpi_manual_data :
                 /\ r.kpi_name = arg[c].kpi_name
                 /\ r.measurement_period = arg[c].measurement_period)
          => /\ pc'[c] = "idle"
             /\ ret'[c].kind = "error"
             /\ ret'[c].exc \in {"NoInputData", "DataAccessFailure"}
             /\ kpi_results' = kpi_results]_vars

\* a manual evaluation returned NoInputData for a key that has a stored result
C3_Witness ==
    /\ pc["c1"] = "idle"
    /\ ret["c1"].kind = "error"
    /\ ret["c1"].exc = "NoInputData"
    /\ RowsOf(EvalKey(ret["c1"].call)) # {}

\* C7: every evaluation called with a period token that does not parse as a
\* year and a month, or whose month is outside 1-12, ends with an error for
\* its caller, and no result is stored under such a token.
C7_MalformedPeriodFails ==
    /\ \A r \in kpi_results : ParsePeriod(r.measurement_period).exc = ""
    /\ \A c \in Callers :
          (/\ pc[c] = "idle"
           /\ ret[c].kind # "none"
           /\ ret[c].call.op \in EvaluationOps
           /\ ParsePeriod(ret[c].call.measurement_period).exc # "")
          => ret[c].kind \in {"raise", "error"}

\* C8: when two callers evaluate the same (KPI, period) concurrently, the
\* store holds one row for the key, and it equals in every field the record
\* of the upsert that committed last.
C8_LastCommitWins ==
    \A key \in DOMAIN written :
       /\ Cardinality(RowsOf(key)) = 1
       /\ \A r \in RowsOf(key) :
             /\ r.calculated_value = written[key].row.calculated_value
             /\ r.calculated_text = written[key].row.calculated_text
             /\ r.target_value = written[key].row.target_value
             /\ r.meets_criteria = written[key].row.meets_criteria
             /\ r.calculated_by = written[key].row.calculated_by
             /\ r.notes = written[key].row.notes

\* both callers evaluated one key while the other's upsert was pending, the
\* two have returned, and the records they wrote differ in value and author
C8_Witness ==
    /\ \A c \in Callers : pc[c] = "idle" /\ ReturnedSaved(ret[c])
    /\ EvalKey(ret["c1"].call) = EvalKey(ret["c2"].call)
    /\ EvalKey(ret["c1"].call) \in DOMAIN written
    /\ written[EvalKey(ret["c1"].call)].raced
    /\ \E old \in written[EvalKey(ret["c1"].call)].before :
          /\ old.calculated_by # written[EvalKey(ret["c1"].call)].row.calculated_by
          /\ old.calculated_value # written[EvalKey(ret["c1"].call)].row.calculated_value

(***************************************************************************)
(* The formula table of the manual KPIs, as the specification gives it.    *)
(***************************************************************************)
RatioKpis == {"FR1", "TTR (Time to Repair) Adherence", "MTBF Mean Time Between Failure",
              "Technical Availability Adherence", "MRT (Mean Response Time)",
              "Non Conformances closed", "Mean Time to Deliver a Quote"}

CountKpis == {"Near Miss", "Non Conformances raised", "Purchaser satisfaction",
              "Purchaser Monthly process Confirmation"}

\* the field a KPI's value is read from: the numerator of a ratio
NumeratorOf(kpi_name) ==
    CASE kpi_name = "FR1" -> "accident_count"
      [] kpi_name = "TTR (Time to Repair) Adherence" -> "p1_within_target"
      [] kpi_name = "MTBF Mean Time Between Failure" -> "p1_operating_hours"
      [] kpi_name = "Technical Availability Adherence" -> "p1_assets_meeting_target"
      [] kpi_name = "MRT (Mean Response Time)" -> "total_response_time_minutes"
      [] kpi_name = "Non Conformances closed" -> "nc_closed_on_time"
      [] kpi_name = "Mean Time to Deliver a Quote" -> "total_quote_time_hours"
      [] kpi_name = "Near Miss" -> "near_miss_count"
      [] kpi_name = "Non Conformances raised" -> "nc_count"
      [] kpi_name = "Purchaser satisfaction" -> "satisfaction_score"
      [] OTHER -> "confirmation_score"

DenominatorOf(kpi_name) ==
    CASE kpi_name = "FR1" -> "hours_worked"
      [] kpi_name = "TTR (Time to Repair) Adherence" -> "p1_total"
      [] kpi_name = "MTBF Mean Time Between Failure" -> "p1_failure_count"
      [] kpi_name = "Technical Availability Adherence" -> "p1_total_assets"
      [] kpi_name = "MRT (Mean Response Time)" -> "wo_count"
      [] kpi_name = "Non Conformances closed" -> "nc_total"
      [] OTHER -> "quote_count"

FormulaFields(kpi_name) ==
    IF kpi_name \in RatioKpis THEN {NumeratorOf(kpi_name), DenominatorOf(kpi_name)}
    ELSE {NumeratorOf(kpi_name)}

\* value and outcome of a KPI from numerator n and denominator d (integers)
TableValue(kpi_name, n, d) ==
    CASE kpi_name = "FR1" -> Num(n * 1000000, d)
      [] kpi_name \in {"TTR (Time to Repair) Adherence", "Technical Availability Adherence",
                       "Non Conformances closed"} -> Num(n * 100, d)
      [] kpi_name \in RatioKpis -> Num(n, d)
      [] OTHER -> Whole(n)

TableMeets(kpi_name, n, d) ==
    CASE kpi_name \in {"FR1", "Non Conformances raised"} -> Bool(n = 0)
      [] kpi_name \in {"TTR (Time to Repair) Adherence",
                       "Technical Availability Adherence"} -> Bool(n * 100 >= 95 * d)
      [] kpi_name = "MTBF Mean Time Between Failure" -> Bool(n > 80 * d)
      [] kpi_name = "MRT (Mean Response Time)" -> Bool(n <= 15 * d)
      [] kpi_name = "Non Conformances closed" -> Bool(n = d)
      [] kpi_name = "Mean Time to Deliver a Quote" -> Bool(n <= 48 * d)
      [] kpi_name \in {"Purchaser satisfaction",
                       "Purchaser Monthly process Confirmation"} -> Bool(n >= 90)
      [] OTHER -> "None"

\* the Manual Data Points of a call's (KPI, period), and those of one field
PointsOf(call) ==
    {r \in kpi_manual_data : /\ r.kpi_name = call.kpi_name
                             /\ r.measurement_period = call.measurement_period}

IsAbsent(call, field) == \A r \in PointsOf(call) : r.data_field # field

\* the stored number of a field, or dflt when the field is absent
StoredOr(call, field, dflt) ==
    IF IsAbsent(call, field) THEN dflt
    ELSE (CHOOSE r \in PointsOf(call) : r.data_field = field).data_value.n

\* the fields of the formula that are present hold numbers that are not negative
WellFormed(call) ==
    \A r \in PointsOf(call) :
       r.data_field \in FormulaFields(call.kpi_name) =>
          (r.data_value.k = "num" /\ r.data_value.d = 1 /\ r.data_value.n >= 0)

\* caller c1 is back from an evaluation named op in which no statement failed
Back(op) ==
    /\ pc["c1"] = "idle"
    /\ ret["c1"].kind # "none"
    /\ ret["c1"].call.op = op
    /\ ret["c1"].exc # "DataAccessFailure"

\* a manual evaluation of a numeric KPI found data, but not one of the fields
\* of the KPI's form
AbsentFieldCase ==
    /\ Back("calculate_manual_kpi")
    /\ ret["c1"].call.kpi_name \in RatioKpis \cup CountKpis
    /\ PointsOf(ret["c1"].call) # {}
    /\ WellFormed(ret["c1"].call)
    /\ \E f \in RequiredFields(ret["c1"].call.kpi_name) : IsAbsent(ret["c1"].call, f)

\* C4, as the code behaves: when data exists for a manual KPI but a required numeric
\* field is absent, the evaluation returns a result, not an error: an absent
\* value or numerator field counts as 0 and an absent denominator field counts
\* as 1, as a stored 0 denominator does.
C4_AbsentFieldDefaults ==
    AbsentFieldCase =>
       LET call == ret["c1"].call
           n    == StoredOr(call, NumeratorOf(call.kpi_name), 0)
           d0   == StoredOr(call, DenominatorOf(call.kpi_name), 1)
           d    == IF d0 = 0 THEN 1 ELSE d0
       IN  /\ ret["c1"].kind = "ok"
           /\ ret["c1"].val.value = TableValue(call.kpi_name, n, d)
           /\ ret["c1"].val.meets_criteria = TableMeets(call.kpi_name, n, d)

\* FR1 evaluated with two accidents stored and hours_worked absent
C4_Witness ==
    /\ AbsentFieldCase
    /\ ret["c1"].call.kpi_name = "FR1"
    /\ IsAbsent(ret["c1"].call, "hours_worked")
    /\ StoredOr(ret["c1"].call, "accident_count", 0) = 2
    /\ ret["c1"].kind = "ok"
    /\ ret["c1"].val.value = Whole(2000000)

\* C4, as the specification words it: every absent field counts as 0 in the formula, a
\* denominator too, which leaves a ratio without a value and its outcome
\* indeterminate.
C4_AbsentFieldIsZero ==
    AbsentFieldCase =>
       LET call == ret["c1"].call
           n    == StoredOr(call, NumeratorOf(call.kpi_name), 0)
           d    == StoredOr(call, DenominatorOf(call.kpi_name), 0)
       IN  /\ ret["c1"].kind = "ok"
           /\ IF call.kpi_name \in RatioKpis /\ d = 0
              THEN ret["c1"].val.meets_criteria = "None"
              ELSE /\ ret["c1"].val.value = TableValue(call.kpi_name, n, d)
                   /\ ret["c1"].val.meets_criteria = TableMeets(call.kpi_name, n, d)

\* a manual evaluation of a ratio KPI found its denominator stored as 0
ZeroDenominatorCase ==
    /\ Back("calculate_manual_kpi")
    /\ ret["c1"].call.kpi_name \in RatioKpis
    /\ WellFormed(ret["c1"].call)
    /\ ~IsAbsent(ret["c1"].call, DenominatorOf(ret["c1"].call.kpi_name))
    /\ StoredOr(ret["c1"].call, DenominatorOf(ret["c1"].call.kpi_name), 1) = 0

\* no call ended in a division by zero, and PM Adherence with nothing
\* scheduled has value 0 and an indeterminate outcome
PmAdherenceOnZero ==
    /\ \A c \in Callers : ret[c].exc # "ZeroDivisionError"
    /\ Back("calculate_pm_adherence") =>
          /\ ret["c1"].kind = "ok"
          /\ ret["c1"].val.scheduled = 0 =>
                (ret["c1"].val.value = Whole(0) /\ ret["c1"].val.meets_criteria = "None")

\* WO Backlog with nothing raised: its outcome is indeterminate, or is meets
\* exactly when nothing is open
WoBacklogOnZero(indeterminate) ==
    Back("calculate_wo_backlog") =>
       /\ ret["c1"].kind = "ok"
       /\ ret["c1"].val.raised_this_month = 0 =>
             ret["c1"].val.meets_criteria =
                IF indeterminate THEN "None" ELSE Bool(ret["c1"].val.open_wo = 0)

\* a manual ratio with a denominator stored as 0: its outcome is
\* indeterminate, or is that of the numerator over 1
ManualRatioOnZero(indeterminate) ==
    ZeroDenominatorCase =>
       /\ ret["c1"].kind = "ok"
       /\ ret["c1"].val.meets_criteria =
             IF indeterminate THEN "None"
             ELSE TableMeets(ret["c1"].call.kpi_name,
                             StoredOr(ret["c1"].call,
                                      NumeratorOf(ret["c1"].call.kpi_name), 0), 1)

\* C5, as the code behaves: no dividing formula raises on a zero denominator.  PM
\* Adherence with nothing scheduled has value 0 and an indeterminate outcome;
\* WO Backlog with nothing raised meets exactly when nothing is open; a manual
\* ratio whose denominator is stored as 0 divides by 1 and has the definite
\* outcome of that quotient.
C5_ZeroDenominatorOutcomes ==
    /\ PmAdherenceOnZero
    /\ WoBacklogOnZero(FALSE)
    /\ ManualRatioOnZero(FALSE)
    /\ ZeroDenominatorCase =>
          ret["c1"].val.value =
             TableValue(ret["c1"].call.kpi_name,
                        StoredOr(ret["c1"].call, NumeratorOf(ret["c1"].call.kpi_name), 0), 1)

\* FR1 evaluated with two accidents and hours_worked stored as 0: the outcome
\* is a definite fails
C5_Witness ==
    /\ ZeroDenominatorCase
    /\ ret["c1"].call.kpi_name = "FR1"
    /\ StoredOr(ret["c1"].call, "accident_count", 0) = 2
    /\ ret["c1"].kind = "ok"
    /\ ret["c1"].val.value = Whole(2000000)
    /\ ret["c1"].val.meets_criteria = "False"

\* C5, as the specification words it: every dividing formula gives an indeterminate outcome on a
\* zero denominator, and does not raise.
C5_ZeroDenominatorIndeterminate ==
    /\ PmAdherenceOnZero
    /\ WoBacklogOnZero(TRUE)
    /\ ManualRatioOnZero(TRUE)

\* C6: a stored result whose outcome is indeterminate is of a KPI without a
\* numeric target (Near Miss, Top Breakdown) or of a ratio whose denominator
\* was zero when it was evaluated.
C6_IndeterminateOnlyWithoutVerdict ==
    \A r \in kpi_results :
       r.meets_criteria = "None" =>
          \/ r.kpi_name \in {"Near Miss", "Top Breakdown"}
          \/ r.kpi_name = PM_ADHERENCE /\ r.notes.a = Whole(0)
          \/ r.kpi_name = WO_BACKLOG /\ r.notes.b = Whole(0)
          \/ /\ r.kpi_name \in RatioKpis
             /\ StoredOr([kpi_name |-> r.kpi_name,
                          measurement_period |-> r.measurement_period],
                         DenominatorOf(r.kpi_name), 0) = 0

\* an indeterminate PM Adherence result of a month with nothing scheduled and
\* completions recorded
C6_Witness ==
    \E r \in kpi_results :
       /\ r.kpi_name = PM_ADHERENCE
       /\ r.meets_criteria = "None"
       /\ r.notes.a = Whole(0)
       /\ r.notes.b # Whole(0)

\* the rows of February 2024 in a table of dates
FebruaryCount(bag) == BagSum(bag, {x \in DOMAIN bag : x[1] = 2024 /\ x[2] = 2})

\* v is a number of hundredths nearest to n / d
NearestHundredth(v, n, d) ==
    /\ 100 % v.d = 0
    /\ 2 * Abs(v.n * (100 \div v.d) * d - 100 * n) <= d

\* a PM Adherence evaluation of February 2024 returned: what it counted, and
\* that it stored what it returned with the target 95
PmAdherenceStored ==
    /\ ret["c1"].val.scheduled = FebruaryCount(weekly_pm_schedules)
    /\ ret["c1"].val.completed = FebruaryCount(pm_completions)
    /\ \E row \in kpi_results :
          /\ RowsOf(<<PM_ADHERENCE, P_2024_02>>) = {row}
          /\ row.calculated_value = ret["c1"].val.value
          /\ row.meets_criteria = ret["c1"].val.meets_criteria
          /\ row.target_value = Whole(95)

PmAdherenceBack == Back("calculate_pm_adherence") /\ ret["c1"].kind = "ok"

WoBacklogBack == Back("calculate_wo_backlog") /\ ret["c1"].kind = "ok"

\* C10: WO Backlog stores the open count as its value; with work orders
\* raised the outcome is meets exactly when open / raised x 100 < 10 and the
\* target is a tenth of raised; with none raised the outcome is meets exactly
\* when none is open and the target is 0.
C10_WoBacklog ==
    WoBacklogBack =>
       LET raised == ret["c1"].val.raised_this_month
           open   == ret["c1"].val.open_wo
       IN  /\ LateWorkOrder \notin DOMAIN corrective_maintenance =>
                 /\ raised = FebruaryCount([x \in {y.created_date.ymd :
                                                     y \in DOMAIN corrective_maintenance} |->
                                BagSum(corrective_maintenance,
                                       {y \in DOMAIN corrective_maintenance :
                                           y.created_date.ymd = x})])
                 /\ open = BagSum(corrective_maintenance,
                                  {y \in DOMAIN corrective_maintenance :
                                      /\ y.status = "Open"
                                      /\ y.created_date.ymd[1] = 2024
                                      /\ y.created_date.ymd[2] = 2})
           /\ \E row \in kpi_results :
                 /\ RowsOf(<<WO_BACKLOG, P_2024_02>>) = {row}
                 /\ row.calculated_value = Whole(open)
                 /\ row.meets_criteria = ret["c1"].val.meets_criteria
                 /\ row.target_value = IF raised > 0 THEN Num(raised, 10) ELSE Whole(0)
                 /\ row.meets_criteria = IF raised > 0 THEN Bool(open * 100 < 10 * raised)
                                         ELSE Bool(open = 0)

\* 11 open of 100 raised: value 11, 11.0 %, fails
C10_Witness ==
    /\ WoBacklogBack
    /\ ret["c1"].val.raised_this_month = 100
    /\ ret["c1"].val.open_wo = 11
    /\ ret["c1"].val.meets_criteria = "False"
    /\ \E row \in RowsOf(<<WO_BACKLOG, P_2024_02>>) :
          /\ row.calculated_value = Whole(11)
          /\ row.calculated_text.b = Num(110, 10)
          /\ row.target_value = Whole(10)

\* the day of SpecAge counted from 2024-02-10: the 60th or the 61st
DaysSinceFeb10 == IF today = <<2024, 4, 10>> THEN 60 ELSE 61

\* the age the calculation is to find for a row of SpecAge, -1 for a row
\* without a usable date
KnownAge(x) ==
    CASE x \in {OpenDated, OpenDayText} -> DaysSinceFeb10
      [] x = OpenTimed -> DaysSinceFeb10 + 1
      [] x = OpenTimeText -> DaysSinceFeb10 - 1
      [] OTHER -> -1

\* the open rows of the table with a usable date, and those older than 60 days
OpenAged == {x \in DOMAIN corrective_maintenance : x.status = "Open" /\ KnownAge(x) >= 0}
OpenOver60 == {x \in OpenAged : KnownAge(x) > 60}

AgeBack == Back("calculate_wo_age_profile") /\ ret["c1"].kind = "ok"

\* C11: an open work order created 61 days before today counts as over the
\* threshold and one created 60 days before does not; the stored value is the
\* number of open work orders older than 60 days, with target 0, and the
\* outcome is meets exactly when that number is 0.
C11_AgeThreshold ==
    AgeBack =>
       /\ ret["c1"].val.over_60_days = Cardinality(OpenOver60)
       /\ ret["c1"].val.meets_criteria = Bool(Cardinality(OpenOver60) = 0)
       /\ OpenDated \in DOMAIN corrective_maintenance =>
             ((OpenDated \in OpenOver60) = (today = <<2024, 4, 11>>))
       /\ \E row \in kpi_results :
             /\ RowsOf(EvalKey(ret["c1"].call)) = {row}
             /\ row.calculated_value = Whole(Cardinality(OpenOver60))
             /\ row.target_value = Whole(0)
             /\ row.meets_criteria = ret["c1"].val.meets_criteria

\* on the 61st day the work order of 2024-02-10, the only open one, is counted
C11_Witness ==
    /\ AgeBack
    /\ today = <<2024, 4, 11>>
    /\ DOMAIN corrective_maintenance = {OpenDated, ClosedOld}
    /\ ret["c1"].val.over_60_days = 1
    /\ ret["c1"].val.meets_criteria = "False"

\* the statements after the first query of a period-scoped calculation
RangeLabels == {"pm_q2", "woc_q2", "woc_q3", "bk_q2"}

\* C12: for a valid YYYY-MM token the range of the three period-scoped
\* calculations starts on day 1 of the month and ends on its last calendar
\* day, 29 for February of a leap year and 28 otherwise, the same in the
\* three; so each counts the row of the first and the row of the last day of
\* the month and no other.
C12_PeriodRange ==
    \A ym \in PeriodMonths :
       /\ (pc["c1"] \in RangeLabels /\ arg["c1"].measurement_period = TokenOf(ym[1], ym[2]))
             => /\ loc["c1"].start_date = <<ym[1], ym[2], 1>>
                /\ loc["c1"].end_date = <<ym[1], ym[2], LastDayOf(ym[1], ym[2])>>
       /\ (/\ pc["c1"] = "idle"
           /\ ret["c1"].kind = "ok"
           /\ ret["c1"].call.measurement_period = TokenOf(ym[1], ym[2]))
             => CASE ret["c1"].call.op = "calculate_pm_adherence" ->
                       ret["c1"].val.scheduled = 2 /\ ret["c1"].val.completed = 2
                  [] ret["c1"].call.op = "calculate_wo_opened_vs_closed" ->
                       ret["c1"].val.opened = 2 /\ ret["c1"].val.currently_open = 2
                  [] ret["c1"].call.op = "calculate_wo_backlog" ->
                       ret["c1"].val.raised_this_month = 2 /\ ret["c1"].val.open_wo = 2
                  [] OTHER -> TRUE

\* WO Backlog of 2024-02 has counted from 2024-02-01 to 2024-02-29
C12_Witness ==
    /\ pc["c1"] = "bk_q2"
    /\ arg["c1"].measurement_period = P_2024_02
    /\ loc["c1"].start_date = <<2024, 2, 1>>
    /\ loc["c1"].end_date = <<2024, 2, 29>>
    /\ loc["c1"].raised_this_month = 2

\* the work orders of February 2024 with one of the statuses
FebruaryWorkOrders(statuses) ==
    BagSum(corrective_maintenance,
           {x \in DOMAIN corrective_maintenance :
               /\ x.status \in statuses
               /\ x.created_date.ymd[1] = 2024
               /\ x.created_date.ymd[2] = 2})

WoOpenedClosedBack == Back("calculate_wo_opened_vs_closed") /\ ret["c1"].kind = "ok"

\* C13: WO Opened vs Closed stores the number of work orders created in the
\* period whose status is Open; the outcome is meets exactly when that number
\* is at most 40, it is never indeterminate, and the target 40 is recorded.
C13_WoOpenedClosed ==
    WoOpenedClosedBack =>
       /\ ret["c1"].val.currently_open = FebruaryWorkOrders({"Open"})
       /\ ret["c1"].val.meets_criteria = Bool(FebruaryWorkOrders({"Open"}) <= 40)
       /\ \E row \in kpi_results :
             /\ RowsOf(<<WO_OPENED_CLOSED, P_2024_02>>) = {row}
             /\ row.calculated_value = Whole(FebruaryWorkOrders({"Open"}))
             /\ row.target_value = Whole(40)
             /\ row.meets_criteria = ret["c1"].val.meets_criteria
             /\ row.meets_criteria \in {"True", "False"}

\* 41 open work orders of the month: value 41, fails
C13_Witness ==
    /\ WoOpenedClosedBack
    /\ FebruaryWorkOrders({"Open"}) = 41
    /\ ret["c1"].val.currently_open = 41
    /\ ret["c1"].val.meets_criteria = "False"

\* a manual evaluation of a numeric KPI found every field of its formula
\* stored as a number, the denominator positive
AllFieldsCase ==
    /\ Back("calculate_manual_kpi")
    /\ ret["c1"].call.kpi_name \in RatioKpis \cup CountKpis
    /\ WellFormed(ret["c1"].call)
    /\ \A f \in FormulaFields(ret["c1"].call.kpi_name) : ~IsAbsent(ret["c1"].call, f)
    /\ ret["c1"].call.kpi_name \in RatioKpis =>
          StoredOr(ret["c1"].call, DenominatorOf(ret["c1"].call.kpi_name), 0) > 0

\* a Top Breakdown evaluation found the analysis stored as a text
TopBreakdownCase ==
    /\ Back("calculate_manual_kpi")
    /\ ret["c1"].call.kpi_name = "Top Breakdown"
    /\ \E r \in PointsOf(ret["c1"].call) :
          r.data_field = "breakdown_analysis" /\ r.data_text.k = "text"

\* C14: with every denominator field positive, the value and the outcome of
\* calculate_manual_kpi are those of the formula table, and they are what is
\* stored; Top Breakdown has its text, no value and an indeterminate outcome.
C14_ManualFormulaTable ==
    /\ AllFieldsCase =>
          LET call == ret["c1"].call
              n    == StoredOr(call, NumeratorOf(call.kpi_name), 0)
              d    == StoredOr(call, DenominatorOf(call.kpi_name), 1)
          IN  /\ ret["c1"].kind = "ok"
              /\ ret["c1"].val.value = TableValue(call.kpi_name, n, d)
              /\ ret["c1"].val.meets_criteria = TableMeets(call.kpi_name, n, d)
              /\ \E row \in kpi_results :
                    /\ RowsOf(EvalKey(call)) = {row}
                    /\ row.calculated_value = TableValue(call.kpi_name, n, d)
                    /\ row.meets_criteria = TableMeets(call.kpi_name, n, d)
    /\ TopBreakdownCase =>
          /\ ret["c1"].kind = "ok"
          /\ ret["c1"].val.value = None
          /\ ret["c1"].val.meets_criteria = "None"
          /\ ret["c1"].val.text # NoText
          /\ \A r \in PointsOf(ret["c1"].call) :
                (r.data_field = "breakdown_analysis" /\ r.data_text.s # <<>>)
                   => ret["c1"].val.text.a = r.data_text

\* MTBF of 161 operating hours and 2 failures: 80.5 hours, meets
C14_Witness ==
    /\ AllFieldsCase
    /\ ret["c1"].call.kpi_name = "MTBF Mean Time Between Failure"
    /\ StoredOr(ret["c1"].call, "p1_operating_hours", 0) = 161
    /\ StoredOr(ret["c1"].call, "p1_failure_count", 0) = 2
    /\ ret["c1"].val.value = Num(161, 2)
    /\ ret["c1"].val.meets_criteria = "True"

\* C15: a failed query or upsert ends the evaluation at once, without a second
\* attempt: the failure is raised by an automatic calculation and returned as
\* an error entry by the manual one, and the result store is as it was before
\* the call, since only the committed upsert, the last statement of an
\* evaluation that returns its result, changes the store.
C15_FailureReachesCaller ==
    [][\A c \in Callers :
          pc[c] # "idle" =>
             /\ (pc'[c] = "idle" /\ ret'[c].exc = "DataAccessFailure") =>
                   /\ ret'[c].call = arg[c]
                   /\ ret'[c].kind = IF arg[c].op = "calculate_manual_kpi"
                                     THEN "error" ELSE "raise"
                   /\ kpi_results' = kpi_results
             /\ kpi_results' # kpi_results =>
                   (pc[c] = "upsert" /\ pc'[c] = "idle" /\ ret'[c].kind = "ok")
             /\ (pc'[c] = "idle" /\ ret'[c].kind = "ok"
                 /\ arg[c].op # "calculate_manual_kpi") => pc[c] = "upsert"]_vars

\* a manual evaluation ended in a data-access error entry, and the result of
\* an earlier evaluation of its key is still the stored one
C15_Witness ==
    /\ pc["c1"] = "idle"
    /\ ret["c1"].kind = "error"
    /\ ret["c1"].exc = "DataAccessFailure"
    /\ ret["c1"].call.op = "calculate_manual_kpi"
    /\ EvalKey(ret["c1"].call) \in DOMAIN written
    /\ RowsOf(EvalKey(ret["c1"].call)) = {written[EvalKey(ret["c1"].call)].row}

TripleOf(r) == <<r.kpi_name, r.measurement_period, r.data_field>>

\* the row a save_manual_data call writes
SavedRow(call) ==
    [kpi_name |-> call.kpi_name, measurement_period |-> call.measurement_period,
     data_field |-> call.data_field, data_value |-> call.data_value,
     data_text |-> call.data_text, entered_by |-> call.username]

\* C16: the manual-data store holds at most one row per (KPI name, period,
\* field name); a successful save leaves exactly the row of its own arguments
\* (value, text, entered-by) for its triple and every row of another triple as
\* it was, and a failed save leaves the whole store as it was, so the row of a
\* triple is that of its most recent successful save.
C16_ManualDataUpsert ==
    /\ [](\A r, q \in kpi_manual_data : TripleOf(r) = TripleOf(q) => r = q)
    /\ [][\E c \in Callers :
             /\ ret'[c].call.op = "save_manual_data"
             /\ ret'[c].kind = "ok" =>
                   /\ SavedRow(ret'[c].call) \in kpi_manual_data'
                   /\ \A r \in kpi_manual_data' :
                         TripleOf(r) = TripleOf(SavedRow(ret'[c].call))
                            => r = SavedRow(ret'[c].call)
                   /\ \A t \in {TripleOf(r) : r \in kpi_manual_data \cup kpi_manual_data'} :
                         t # TripleOf(SavedRow(ret'[c].call)) =>
                            {r \in kpi_manual_data' : TripleOf(r) = t}
                               = {r \in kpi_manual_data : TripleOf(r) = t}
             /\ ret'[c].kind # "ok" => kpi_manual_data' = kpi_manual_data]_vars

\* both users saved the same triple with different contents, the second
\* user's save is the stored row, and a row of another triple is still there
C16_Witness ==
    /\ ret["c1"].kind = "ok" /\ ret["c1"].call.op = "save_manual_data"
    /\ ret["c2"].kind = "ok" /\ ret["c2"].call.op = "save_manual_data"
    /\ TripleOf(SavedRow(ret["c1"].call)) = TripleOf(SavedRow(ret["c2"].call))
    /\ ret["c1"].call.data_value # ret["c2"].call.data_value
    /\ SavedRow(ret["c2"].call) \in kpi_manual_data
    /\ SavedRow(ret["c1"].call) \notin kpi_manual_data
    /\ \E r \in kpi_manual_data : TripleOf(r) # TripleOf(SavedRow(ret["c2"].call))

\* the filters of get_kpi_results that the stored results can tell apart
ListFilters ==
    {<<period, kpi_name>> :
        period \in {NoPeriod} \cup {r.measurement_period : r \in kpi_results},
        kpi_name \in {NoName} \cup {r.kpi_name : r \in kpi_results}}

\* C17: a save_manual_data call, successful or failed, leaves the result store
\* as it was, so get_kpi_results returns the same results before and after it
\* under every filter; a stored result changes only by the upsert that ends an
\* evaluation of its own KPI and period.
C17_SaveLeavesResults ==
    [][/\ \A c \in Callers :
             (pc[c] = "idle" /\ pc'[c] = "idle"
              /\ ret'[c].call.op = "save_manual_data") =>
                /\ kpi_results' = kpi_results
                /\ \A f \in ListFilters :
                      GetKpiResults(kpi_results', kpi_definitions', f[1], f[2])
                         = GetKpiResults(kpi_results, kpi_definitions, f[1], f[2])
       /\ \A r \in (kpi_results' \ kpi_results) \cup (kpi_results \ kpi_results') :
             \E c \in Callers :
                /\ pc[c] = "upsert"
                /\ arg[c].op \in EvaluationOps
                /\ <<r.kpi_name, r.measurement_period>> = EvalKey(arg[c])]_vars

\* the number of accidents of FR1 was saved as zero after an evaluation
\* stored a result computed from two accidents, and that result is still the
\* one listed
C17_Witness ==
    /\ ret["c1"].kind = "ok"
    /\ ret["c1"].call.op = "save_manual_data"
    /\ ret["c1"].call.data_field = "accident_count"
    /\ ret["c1"].call.data_value = Whole(0)
    /\ SavedRow(ret["c1"].call) \in kpi_manual_data
    /\ LET listed == GetKpiResults(kpi_results, kpi_definitions,
                                    ret["c1"].call.measurement_period, "FR1")
       IN  \E i \in DOMAIN listed :
              /\ listed[i].calculated_value # None
              /\ listed[i].calculated_value.n > 0

\* the open rows of the table that have no usable creation date
OpenUndated ==
    {x \in DOMAIN corrective_maintenance :
        x.status = "Open" /\ x \in {OpenSlashText, OpenNoDayText, OpenNull}}

RECURSIVE KnownAgeSum(_)
KnownAgeSum(S) ==
    IF S = {} THEN 0
    ELSE LET x == CHOOSE x \in S : TRUE IN KnownAge(x) + KnownAgeSum(S \ {x})

\* C18: an open work order whose creation date is missing, or is text in
\* neither of the two forms, or names no calendar day, is left out of the
\* over-60-days count and of the mean age, which are those of the other open
\* work orders; it is still one of the open work orders in the total, and the
\* calculation fails only when a statement fails.
C18_UndatedSkipped ==
    /\ (pc["c1"] = "idle" /\ ret["c1"].call.op = "calculate_wo_age_profile") =>
          (ret["c1"].kind = "ok" \/ ret["c1"].exc = "DataAccessFailure")
    /\ AgeBack =>
          /\ OpenUndated \cap OpenAged = {}
          /\ ret["c1"].val.total_open = Cardinality(OpenAged) + Cardinality(OpenUndated)
          /\ ret["c1"].val.over_60_days =
                Cardinality({x \in OpenAged \ OpenUndated : KnownAge(x) > 60})
          /\ ret["c1"].val.avg_age =
                IF OpenAged = {} THEN Whole(0)
                ELSE Round1(Num(KnownAgeSum(OpenAged), Cardinality(OpenAged)))

\* three open work orders without a usable date beside one created 61 days
\* ago: four open, one over 60 days, mean age 61
C18_Witness ==
    /\ AgeBack
    /\ today = <<2024, 4, 11>>
    /\ DOMAIN corrective_maintenance = {OpenDated, OpenSlashText, OpenNoDayText, OpenNull}
    /\ ret["c1"].val.total_open = 4
    /\ ret["c1"].val.over_60_days = 1
    /\ ret["c1"].val.avg_age = Whole(61)

AgeProfiles == {r \in kpi_results : r.kpi_name = WO_AGE_PROFILE}

\* C19: with the work orders and the current date the same, the WO Age
\* Profile results stored under any two period tokens are equal in every
\* column but the period, and a returned result is the count, mean age and
\* outcome over all open work orders, stored under the token of the call.
C19_PeriodIndependent ==
    /\ \A r, q \in AgeProfiles : [r EXCEPT !.measurement_period = q.measurement_period] = q
    /\ AgeBack =>
          /\ ret["c1"].val.over_60_days = Cardinality(OpenOver60)
          /\ ret["c1"].val.total_open =
                Cardinality({x \in DOMAIN corrective_maintenance : x.status = "Open"})
          /\ ret["c1"].val.meets_criteria = Bool(OpenOver60 = {})
          /\ \E row \in AgeProfiles :
                /\ RowsOf(EvalKey(ret["c1"].call)) = {row}
                /\ row.measurement_period = ret["c1"].call.measurement_period
                /\ HoldsValuesOf(row, ret["c1"].call, ret["c1"].val)

\* the profile was stored under two tokens, one of them not a month, with a
\* work order over 60 days old in both
C19_Witness ==
    /\ AgeBack
    /\ \E r, q \in AgeProfiles :
          /\ r.measurement_period = P_2024_02
          /\ q.measurement_period = P_2024_13
          /\ r.calculated_value.n > 0
          /\ q.calculated_value.n > 0

\* C20: in every result that calculate_wo_backlog returns, the open count is
\* at most the raised count, whatever other users insert or update between
\* the two count queries of the calculation.
C20_OpenWithinRaised ==
    WoBacklogBack => ret["c1"].val.open_wo <= ret["c1"].val.raised_this_month

\* the statuses that are neither still open nor closed or completed
OtherStatuses == AllStatuses \ {"Open", "Closed", "Completed"}

\* C21, as the code behaves: in a store that no one changes during the call,
\* opened counts every work order created in the period, closed those with
\* status Closed or Completed and currently_open those with status Open, so
\* opened = closed + currently_open + the number with any other status;
\* opened = closed + currently_open only when no work order of the period
\* has another status.
C21_OpenedSplitWithOthers ==
    WoOpenedClosedBack =>
       /\ ret["c1"].val.opened = FebruaryWorkOrders(AllStatuses)
       /\ ret["c1"].val.closed = FebruaryWorkOrders({"Closed", "Completed"})
       /\ ret["c1"].val.currently_open = FebruaryWorkOrders({"Open"})
       /\ ret["c1"].val.opened = ret["c1"].val.closed + ret["c1"].val.currently_open
                                    + FebruaryWorkOrders(OtherStatuses)
       /\ (ret["c1"].val.opened = ret["c1"].val.closed + ret["c1"].val.currently_open)
             = (FebruaryWorkOrders(OtherStatuses) = 0)

\* a work order in progress beside nine closed and ten open ones of the month
C21_Witness ==
    /\ WoOpenedClosedBack
    /\ FebruaryWorkOrders(OtherStatuses) = 1
    /\ ret["c1"].val.opened = 20
    /\ ret["c1"].val.closed = 9
    /\ ret["c1"].val.currently_open = 10

\* C21, as the specification words it: opened = closed + currently_open in
\* every returned result, whatever statuses the work orders have.
C21_OpenedSplit ==
    WoOpenedClosedBack =>
       ret["c1"].val.opened = ret["c1"].val.closed + ret["c1"].val.currently_open

ListBack ==
    pc["c1"] = "idle" /\ ret["c1"].kind = "ok" /\ ret["c1"].call.op = "get_kpi_results"

\* the stored results a list is to hold: those of its filters that have a
\* definition
Listable(call) ==
    {r \in kpi_results :
        /\ call.measurement_period # <<>> => r.measurement_period = call.measurement_period
        /\ call.kpi_name # "" => r.kpi_name = call.kpi_name
        /\ \E d \in kpi_definitions : d.kpi_name = r.kpi_name}

\* the result columns of a listed row
ResultColumns(x) == [f \in DOMAIN StoredResult("FR1", P_2024_02) |-> x[f]]

\* C22: the list get_kpi_results returns holds, once each, exactly the stored
\* results that match the filters given and have a definition, each with the
\* function code, description, acceptance criteria and frequency of its
\* definition, ordered by function code, then KPI name, then period
\* descending.
C22_ListResults ==
    ListBack =>
       LET list == ret["c1"].val
       IN  /\ Len(list) = Cardinality(Listable(ret["c1"].call))
           /\ {ResultColumns(list[i]) : i \in DOMAIN list} = Listable(ret["c1"].call)
           /\ \A i \in DOMAIN list :
                 \E d \in kpi_definitions :
                    /\ d.kpi_name = list[i].kpi_name
                    /\ list[i].function_code = d.function_code
                    /\ list[i].description = d.description
                    /\ list[i].acceptance_criteria = d.acceptance_criteria
                    /\ list[i].frequency = d.frequency
           /\ \A i, j \in DOMAIN list :
                 i < j =>
                    \/ TextRank(list[i].function_code) < TextRank(list[j].function_code)
                    \/ /\ list[i].function_code = list[j].function_code
                       /\ TextRank(list[i].kpi_name) < TextRank(list[j].kpi_name)
                    \/ /\ list[i].function_code = list[j].function_code
                       /\ list[i].kpi_name = list[j].kpi_name
                       /\ PeriodLess(list[j].measurement_period,
                                     list[i].measurement_period)

\* with the definition of Near Miss missing, the unfiltered list of the
\* results of PM Adherence, FR1 and Near Miss is PM Adherence of 2024-02, of
\* 2023-12 (function F2), then FR1 (function F4)
C22_Witness ==
    /\ ListBack
    /\ ret["c1"].call.measurement_period = NoPeriod
    /\ ret["c1"].call.kpi_name = NoName
    /\ kpi_results = {StoredResult(PM_ADHERENCE, P_2023_12),
                      StoredResult(PM_ADHERENCE, P_2024_02),
                      StoredResult("FR1", P_2024_02),
                      StoredResult("Near Miss", P_2024_02)}
    /\ Len(ret["c1"].val) = 3
    /\ ResultColumns(ret["c1"].val[1]) = StoredResult(PM_ADHERENCE, P_2024_02)
    /\ ResultColumns(ret["c1"].val[2]) = StoredResult(PM_ADHERENCE, P_2023_12)
    /\ ResultColumns(ret["c1"].val[3]) = StoredResult("FR1", P_2024_02)

\* two callers are about to write results of different keys
WritesOfTwoKeys ==
    /\ pc["c1"] = "upsert"
    /\ pc["c2"] = "upsert"
    /\ KeyOf(loc["c1"].row) # KeyOf(loc["c2"].row)

\* the rows of the keys other than that of a row
OtherRows(table, row) == {r \in table : KeyOf(r) # KeyOf(row)}

\* C23: a result write leaves every row of every other key as it was, and
\* when two callers are about to write results of different keys the store
\* after both writes is the same in either order and holds both rows.
C23_WritesIndependent ==
    /\ [][\A c \in Callers :
             (pc[c] = "upsert" /\ pc'[c] = "idle") =>
                OtherRows(kpi_results', loc[c].row) = OtherRows(kpi_results, loc[c].row)]_vars
    /\ [](WritesOfTwoKeys =>
             LET first  == UpsertResult(UpsertResult(kpi_results, loc["c1"].row),
                                        loc["c2"].row)
                 second == UpsertResult(UpsertResult(kpi_results, loc["c2"].row),
                                        loc["c1"].row)
             IN  /\ first = second
                 /\ {loc["c1"].row, loc["c2"].row} \subseteq first
                 /\ OtherRows(OtherRows(first, loc["c1"].row), loc["c2"].row)
                       = OtherRows(OtherRows(kpi_results, loc["c1"].row), loc["c2"].row))

\* the two callers are about to write different keys, one of which already
\* has a stored row
C23_Witness ==
    /\ WritesOfTwoKeys
    /\ RowsOf(KeyOf(loc["c2"].row)) # {}
    /\ RowsOf(KeyOf(loc["c1"].row)) = {}

\* C24: whenever calculate_manual_kpi returns a mapping without an error
\* entry, the result store holds a row of the call's KPI name and period with
\* the returned value, text and outcome, whatever the name and the stored
\* field values are.
C24_ReturnedIsStored ==
    (Back("calculate_manual_kpi") /\ ret["c1"].kind = "ok") =>
       \E row \in RowsOf(EvalKey(ret["c1"].call)) :
          HoldsValuesOf(row, ret["c1"].call, ret["c1"].val)

\* what an evaluation of FR1 for February 2024 computes from the manual data
\* stored now
FromStoredData ==
    ManualDict(ManualFormula("FR1", DataDict(SelectManualData(kpi_manual_data, "FR1",
                                                              P_2024_02))))

\* C25: the accidents of FR1 change once, from two to zero, so an evaluation
\* that returned the result of the stored data read it after the change; once
\* such an evaluation has returned and no evaluation is running, the stored
\* result is the one computed from the stored data.
C25_ChangedDataIsStored ==
    (/\ \A c \in Callers : pc[c] = "idle"
     /\ \E r \in kpi_manual_data : r.data_field = "accident_count" /\ r.data_value = Whole(0)
     /\ \E c \in Callers :
           /\ ret[c].kind = "ok"
           /\ ret[c].call.op = "calculate_manual_kpi"
           /\ ret[c].val = FromStoredData)
    => \E row \in RowsOf(<<"FR1", P_2024_02>>) :
          /\ row.calculated_value = FromStoredData.value
          /\ row.meets_criteria = FromStoredData.meets_criteria

\* the values of a form as they are stored
StoredForm(form) ==
    \A i \in DOMAIN form :
       \E r \in kpi_manual_data :
          /\ r.kpi_name = "FR1" /\ r.measurement_period = P_2024_02
          /\ r.data_field = form[i].data_field
          /\ r.data_value = form[i].data_value

\* what an evaluation of FR1 computes from the values of a form
FromForm(form) == ManualDict(ManualFormula("FR1", DataDict(FormRows(form, "alice"))))

\* C26: an evaluation of FR1 that runs while the form of FR1 is saved returns
\* the result of the form's previous values or of its new values, never of a
\* mixture; and while no save of the form is running, after a failed save
\* too, the stored fields are all the previous or all the new ones.
C26_FormIsAtomic ==
    /\ \A c \in Callers :
          (pc[c] = "idle" /\ ret[c].kind = "ok"
           /\ ret[c].call.op = "calculate_manual_kpi") =>
             ret[c].val \in {FromForm(OldForm), FromForm(NewForm)}
    /\ (\A c \in Callers : pc[c] # "form") => (StoredForm(OldForm) \/ StoredForm(NewForm))

\* C27: in every stored Preventive Maintenance Adherence result of a month
\* with something scheduled, the outcome is meets exactly when the stored
\* value, which is rounded to two decimals, is at least the stored target 95.
C27_OutcomeAgreesWithValue ==
    \A r \in kpi_results :
       (r.kpi_name = PM_ADHERENCE /\ r.notes.a.n > 0) =>
          /\ r.target_value = Whole(95)
          /\ (r.meets_criteria = "True") = Le(r.target_value, r.calculated_value)
          /\ r.meets_criteria \in {"True", "False"}

\* C28: in a mapping calculate_all_auto_kpis returns without an error entry,
\* WO opened vs closed and WO Backlog agree on the counts they share: opened
\* is raised_this_month and currently_open is open_wo, whatever other users
\* insert or close while the batch runs.
C28_BatchCountsAgree ==
    (/\ pc["c1"] = "idle"
     /\ BatchReturned(ret["c1"])
     /\ \A k \in BatchKeys : ret["c1"].val[k].kind = "ok") =>
       /\ ret["c1"].val["wo_opened_closed"].val.opened
             = ret["c1"].val["wo_backlog"].val.raised_this_month
       /\ ret["c1"].val["wo_opened_closed"].val.currently_open
             = ret["c1"].val["wo_backlog"].val.open_wo

\* the statements that open a calculation, before its connection is obtained
OpeningLabels == {"pm_q1", "woc_q1", "bk_q1", "age_q1", "man_q1"}

\* C29: a caller holds no pool connection when its operation has returned or
\* raised; an automatic calculation holds its read connection from its first
\* query until it ends, and a second one for the result upsert, so it holds
\* two at the write and never more; the manual calculation has returned its
\* read connection before it saves and holds one at the write.
C29_ConnectionsReturned ==
    \A c \in Callers :
       /\ held[c] \in 0..2
       /\ pc[c] = "idle" => held[c] = 0
       /\ pc[c] \in OpeningLabels => held[c] = 0
       /\ pc[c] = "save" =>
             held[c] = IF arg[c].op = "calculate_manual_kpi" THEN 0 ELSE 1
       /\ pc[c] = "upsert" =>
             held[c] = IF arg[c].op = "calculate_manual_kpi" THEN 1 ELSE 2
       /\ pc[c] \notin OpeningLabels \cup {"idle", "save", "upsert"} => held[c] = 1

\* the age profile is at its upsert with two connections checked out, in a
\* call that follows an earlier one of the same caller
C29_Witness ==
    /\ pc["c1"] = "upsert"
    /\ arg["c1"].op = "calculate_wo_age_profile"
    /\ held["c1"] = 2
    /\ calls >= 2

DashBack ==
    pc["c1"] = "idle" /\ ret["c1"].kind = "ok" /\ ret["c1"].call.op = "refresh_dashboard"

\* every KPI the engine evaluates has a stored result for the period
AllEvaluated(period) ==
    \A kpi_name \in AutoKpis \cup ManualKpis :
       \E r \in kpi_results : r.kpi_name = kpi_name /\ r.measurement_period = period

\* C30: the pending count the dashboard shows for a period is never negative,
\* and it is 0 exactly when each of the four automatic and twelve manual KPIs
\* has a stored result for that period.
C30_PendingCount ==
    DashBack =>
       /\ ret["c1"].val.pending >= 0
       /\ (ret["c1"].val.pending = 0) = AllEvaluated(ret["c1"].call.measurement_period)

====
